---- MODULE Spec2Model ----
(***************************************************************************)
(* TalentMatch-AI: the query planning and execution engine of              *)
(* bi_engine.py (BusinessIntelligenceEngine).  Strings are TLA+ strings    *)
(* handled character by character (Len, SubSeq, \o); dates are records     *)
(* [year, month, day]; loads and allocations are integer percentages       *)
(* (1.0 = 100); an optional value is <<>> (None) or <<v>>.                 *)
(***************************************************************************)
EXTENDS Integers, Sequences, FiniteSets, TLC

VARIABLES
  pc,        \* position of the request being served
  question,  \* the question text
  today,     \* date.today()
  plan,      \* None or Some(QueryPlan)
  cypher,    \* None or Some(query text)
  params,    \* bound parameters
  verdict,   \* None, or Some(the safety validator's answer for cypher)
  graph,     \* the graph store's snapshot
  rows,      \* rows returned by the graph store
  result,    \* None or Some(answer_question's return value)
  nqueries,  \* graph.query calls made for the current question
  other,     \* the locals of a second request, waiting while this one runs
  category,  \* None or Some(classify_query's answer for the question)
  summary,   \* a call of generate_natural_answer: its data and what came of it
  exc,       \* None or Some(message of the exception graph.query raised)
  service    \* the REST service: its engine, the request being served, the last response

vars == <<pc, question, today, plan, cypher, params, verdict, graph, rows, result,
          nqueries, other, category, summary, exc, service>>

None == <<>>
Some(v) == <<v>>

\* the service state when an engine has been constructed and no request is served
Constructed == [engine |-> TRUE, pending |-> "", response |-> None]
TruthyStr(o) == o # None /\ o[1] # ""
TruthyNum(o) == o # None /\ o[1] # 0

(***************************************************************************)
(* Python string primitives                                                *)
(***************************************************************************)
Lower(c) ==
  CASE c = "A" -> "a" [] c = "B" -> "b" [] c = "C" -> "c" [] c = "D" -> "d"
    [] c = "E" -> "e" [] c = "F" -> "f" [] c = "G" -> "g" [] c = "H" -> "h"
    [] c = "I" -> "i" [] c = "J" -> "j" [] c = "K" -> "k" [] c = "L" -> "l"
    [] c = "M" -> "m" [] c = "N" -> "n" [] c = "O" -> "o" [] c = "P" -> "p"
    [] c = "Q" -> "q" [] c = "R" -> "r" [] c = "S" -> "s" [] c = "T" -> "t"
    [] c = "U" -> "u" [] c = "V" -> "v" [] c = "W" -> "w" [] c = "X" -> "x"
    [] c = "Y" -> "y" [] c = "Z" -> "z" [] OTHER -> c

RECURSIVE LowerStr(_)
LowerStr(s) ==
  IF Len(s) = 0 THEN ""
  ELSE IF Len(s) = 1 THEN Lower(s)
  ELSE LET h == Len(s) \div 2
       IN LowerStr(SubSeq(s, 1, h)) \o LowerStr(SubSeq(s, h + 1, Len(s)))

Contains(s, k) ==
  \E i \in 1..(Len(s) - Len(k) + 1) : SubSeq(s, i, i + Len(k) - 1) = k

StartsWith(s, k) == Len(s) >= Len(k) /\ SubSeq(s, 1, Len(k)) = k

IsSpace(c) == c \in {" ", "\n", "\t", "\r"}

Strip(s) ==
  LET keep == {i \in 1..Len(s) : ~IsSpace(SubSeq(s, i, i))}
      lo == CHOOSE i \in keep : \A j \in keep : i <= j
      hi == CHOOSE i \in keep : \A j \in keep : i >= j
  IN IF keep = {} THEN "" ELSE SubSeq(s, lo, hi)

\* s[i-1:j] of Python: out-of-range indices are clipped
Slice(s, i, j) ==
  LET lo == IF i < 1 THEN 1 ELSE i
      hi == IF j > Len(s) THEN Len(s) ELSE j
  IN IF lo > hi THEN "" ELSE SubSeq(s, lo, hi)

CharAt(s, i) == IF i >= 1 /\ i <= Len(s) THEN SubSeq(s, i, i) ELSE ""

IsDigit(c) == c # "" /\ Contains("0123456789", c)
IsLowerCh(c) == c # "" /\ Contains("abcdefghijklmnopqrstuvwxyz", c)
IsUpperCh(c) == c # "" /\ Contains("ABCDEFGHIJKLMNOPQRSTUVWXYZ", c)
IsWordChar(c) == IsDigit(c) \/ IsLowerCh(c) \/ IsUpperCh(c) \/ c = "_"

Upper(c) ==
  IF IsLowerCh(c)
  THEN LET i == CHOOSE j \in 1..26 : CharAt("abcdefghijklmnopqrstuvwxyz", j) = c
       IN CharAt("ABCDEFGHIJKLMNOPQRSTUVWXYZ", i)
  ELSE c

\* str.title(): a letter is upper-cased after a non-letter, lower-cased after a letter
RECURSIVE TitleFrom(_, _)
TitleFrom(s, i) ==
  IF i > Len(s) THEN ""
  ELSE LET c == CharAt(s, i)
           prev == CharAt(s, i - 1)
           cased == IF IsLowerCh(prev) \/ IsUpperCh(prev) THEN Lower(c) ELSE Upper(c)
       IN cased \o TitleFrom(s, i + 1)

Title(s) == TitleFrom(s, 1)

\* list(dict.fromkeys(xs)): first occurrences, in order
RECURSIVE Dedup(_)
Dedup(xs) ==
  IF xs = <<>> THEN <<>>
  ELSE LET init == Dedup(SubSeq(xs, 1, Len(xs) - 1))
           last == xs[Len(xs)]
       IN IF \E i \in DOMAIN init : init[i] = last THEN init ELSE Append(init, last)

\* position of the leftmost index satisfying a predicate, 0 when none
Leftmost(S) == IF S = {} THEN 0 ELSE CHOOSE i \in S : \A j \in S : i <= j

\* greedy \d+ : index of the last digit of the run starting at i (i - 1 when none)
RECURSIVE DigitsEnd(_, _)
DigitsEnd(s, i) == IF IsDigit(CharAt(s, i)) THEN DigitsEnd(s, i + 1) ELSE i - 1

\* greedy [a-z]+ : index of the last lower-case letter of the run starting at i
RECURSIVE LowersEnd(_, _)
LowersEnd(s, i) == IF IsLowerCh(CharAt(s, i)) THEN LowersEnd(s, i + 1) ELSE i - 1

\* greedy \s+ : index of the last whitespace of the run starting at i
RECURSIVE SpacesEnd(_, _)
SpacesEnd(s, i) ==
  IF CharAt(s, i) # "" /\ IsSpace(CharAt(s, i)) THEN SpacesEnd(s, i + 1) ELSE i - 1

Digit(n) == SubSeq("0123456789", n + 1, n + 1)

\* int(digits) for a string of decimal digits
RECURSIVE ToInt(_)
ToInt(ds) ==
  IF ds = "" THEN 0
  ELSE 10 * ToInt(SubSeq(ds, 1, Len(ds) - 1))
       + (CHOOSE n \in 0..9 : Digit(n) = CharAt(ds, Len(ds)))

RECURSIVE Pow10(_)
Pow10(n) == IF n = 0 THEN 1 ELSE 10 * Pow10(n - 1)

(***************************************************************************)
(* datetime.date                                                           *)
(***************************************************************************)
IsLeap(y) == (y % 4 = 0 /\ y % 100 # 0) \/ y % 400 = 0

DaysInMonth(y, m) ==
  IF m = 2 THEN (IF IsLeap(y) THEN 29 ELSE 28)
  ELSE IF m \in {4, 6, 9, 11} THEN 30 ELSE 31

Date(y, m, d) == [year |-> y, month |-> m, day |-> d]

NextDay(d) ==
  IF d.day < DaysInMonth(d.year, d.month) THEN Date(d.year, d.month, d.day + 1)
  ELSE IF d.month < 12 THEN Date(d.year, d.month + 1, 1)
  ELSE Date(d.year + 1, 1, 1)

PrevDay(d) ==
  IF d.day > 1 THEN Date(d.year, d.month, d.day - 1)
  ELSE IF d.month > 1
       THEN Date(d.year, d.month - 1, DaysInMonth(d.year, d.month - 1))
  ELSE Date(d.year - 1, 12, 31)

RECURSIVE AddDays(_, _)
AddDays(d, n) ==
  IF n = 0 THEN d
  ELSE IF n > 0 THEN AddDays(NextDay(d), n - 1)
  ELSE AddDays(PrevDay(d), n + 1)

ReplaceDay(d, k) == Date(d.year, d.month, k)

isoformat(d) ==
  Digit(d.year \div 1000) \o Digit((d.year \div 100) % 10)
    \o Digit((d.year \div 10) % 10) \o Digit(d.year % 10) \o "-"
    \o Digit(d.month \div 10) \o Digit(d.month % 10) \o "-"
    \o Digit(d.day \div 10) \o Digit(d.day % 10)

(***************************************************************************)
(* Time windows: _window_from_availability, today = date.today()           *)
(***************************************************************************)
LastOfMonth(first) ==
  PrevDay(ReplaceDay(AddDays(ReplaceDay(first, 28), 4), 1))

Window(s, e) == Some([start |-> isoformat(s), end |-> isoformat(e)])

_window_from_availability_no_rollover(availability, td) ==
  IF availability.type = Some("this_month")
  THEN LET start == Date(td.year, td.month, 1)
       IN Window(start, LastOfMonth(start))
  ELSE IF availability.type = Some("next_month")
  THEN LET nm == Date(td.year, IF td.month = 12 THEN 1 ELSE td.month + 1, 1)
       IN Window(nm, LastOfMonth(nm))
  ELSE IF availability.type = Some("quarter")
  THEN LET m == ((td.month - 1) \div 3) + 1
           start_month == (m - 1) * 3 + 1
           start == Date(td.year, start_month, 1)
           end_month == start_month + 2
       IN Window(start, LastOfMonth(Date(td.year, end_month, 28)))
  ELSE None

_window_from_availability(availability, td) ==
  IF availability.type = Some("this_month")
  THEN LET start == Date(td.year, td.month, 1)
       IN Window(start, LastOfMonth(start))
  ELSE IF availability.type = Some("next_month")
  THEN LET nm == Date(td.year + (IF td.month = 12 THEN 1 ELSE 0),
                      IF td.month = 12 THEN 1 ELSE td.month + 1, 1)
       IN Window(nm, LastOfMonth(nm))
  ELSE IF availability.type = Some("quarter")
  THEN LET m == ((td.month - 1) \div 3) + 1
           start_month == (m - 1) * 3 + 1
           start == Date(td.year, start_month, 1)
           end_month == start_month + 2
       IN Window(start, LastOfMonth(Date(td.year, end_month, 28)))
  ELSE None

(***************************************************************************)
(* Safety validators                                                       *)
(***************************************************************************)
forbidden ==
  <<"create", "merge", "set", "delete", "detach", "call", "apoc", "gds",
    "load csv", "drop">>

allowed_starts_with_unwind == <<"match", "with", "return", "optional match", "unwind">>

allowed_starts == <<"match", "with", "return", "optional match">>

\* cypher is an optional string: None or Some(text)
_is_safe_cypher(c) ==
  IF ~TruthyStr(c) THEN FALSE
  ELSE LET lowered == LowerStr(c[1])
       IN IF \E i \in DOMAIN forbidden : Contains(lowered, forbidden[i])
          THEN FALSE
          ELSE \E i \in DOMAIN allowed_starts :
                 StartsWith(Strip(lowered), allowed_starts[i])

(***************************************************************************)
(* Plan-to-query compilers.  Each returns [cypher |-> text, params |-> map] *)
(* with the query text assembled from the literals of the source.          *)
(***************************************************************************)
LowerAll(skills) == [i \in DOMAIN skills |-> LowerStr(skills[i])]

\* an availability of type "now" compiled to no filter at all
_availability_clause_now_unfiltered(availability, td) ==
  IF availability.type \in {Some("none"), None, Some("now")}
  THEN [clause |-> "", params |-> <<>>]
  ELSE LET window == _window_from_availability(availability, td)
       IN IF /\ availability.type \in {Some("this_month"), Some("next_month"), Some("quarter")}
             /\ window # None
          THEN [clause |-> "WHERE coalesce(load,0) < 1.0 OR (latest_end IS NOT NULL AND date(latest_end) <= date($start))",
                params |-> [start |-> window[1].start, end |-> window[1].end]]
          ELSE IF availability.type = Some("after_end")
          THEN [clause |-> "WHERE coalesce(load,0) < 1.0", params |-> <<>>]
          ELSE [clause |-> "", params |-> <<>>]

RECURSIVE Join(_, _)
Join(parts, sep) ==
  IF parts = <<>> THEN ""
  ELSE IF Len(parts) = 1 THEN parts[1]
  ELSE parts[1] \o sep \o Join(Tail(parts), sep)

_availability_clause(availability, td) ==
  IF availability.type \in {Some("none"), None}
  THEN [clause |-> "", params |-> <<>>]
  ELSE IF availability.type = Some("now")
  THEN [clause |-> "WHERE coalesce(load,0) < 1.0", params |-> <<>>]
  ELSE LET window == _window_from_availability(availability, td)
       IN IF /\ availability.type \in {Some("this_month"), Some("next_month"), Some("quarter")}
             /\ window # None
          THEN [clause |-> "WHERE coalesce(load,0) < 1.0 OR (latest_end IS NOT NULL AND date(latest_end) <= date($start))",
                params |-> [start |-> window[1].start, end |-> window[1].end]]
          ELSE IF availability.type = Some("after_end")
          THEN [clause |-> "WHERE coalesce(load,0) < 1.0", params |-> <<>>]
          ELSE [clause |-> "", params |-> <<>>]

\* a skill clause with the skills written into the query text
_skill_and_clause_inlined(skills) ==
  IF skills = <<>> THEN ""
  ELSE "MATCH (p)-[:HAS_SKILL]->(s:Skill)\nWITH p, collect(DISTINCT toLower(coalesce(s.id,s.name,''))) as skill_list\nWHERE ALL(x IN ['"
         \o Join(LowerAll(skills), "','")
         \o "'] WHERE ANY(sk IN skill_list WHERE sk CONTAINS x))\n"

_skill_and_clause(skills) ==
  IF skills = <<>> THEN ""
  ELSE "MATCH (p)-[:HAS_SKILL]->(s:Skill)\nWITH p, collect(DISTINCT toLower(coalesce(s.id,s.name,''))) as skill_list\nWHERE ALL(x IN $skills WHERE ANY(sk IN skill_list WHERE sk CONTAINS x))\n"

\* the load step with its second alias renamed
_base_load_cte_reset_alias ==
  "OPTIONAL MATCH (p)-[r:ASSIGNED_TO]->(proj:Project)\nWITH p, sum(coalesce(r.allocation_percentage, coalesce(r.allocation,0.0))) as load, max(coalesce(r.end_date, proj.end_date)) as reset_date\n"

_base_load_cte ==
  "OPTIONAL MATCH (p)-[r:ASSIGNED_TO]->(proj:Project)\nWITH p, sum(coalesce(r.allocation_percentage, coalesce(r.allocation,0.0))) as load, max(coalesce(r.end_date, proj.end_date)) as latest_end\n"

_cypher_counting(p, td) ==
  LET av == _availability_clause(p.availability, td)
  IN IF p.certification_mode /\ p.skills # <<>>
     THEN [cypher |-> "MATCH (p:Person)-[:EARNED]->(c:Certification)\nWHERE ANY(x IN $skills WHERE toLower(coalesce(c.id,c.name,'')) CONTAINS x)\n"
                      \o _base_load_cte \o av.clause \o "\nRETURN count(DISTINCT p) as result",
           params |-> av.params @@ [skills |-> LowerAll(p.skills)]]
     ELSE IF p.project_mode
     THEN [cypher |-> "MATCH (proj:Project)\nWHERE toLower(coalesce(proj.status,'')) IN ['ongoing','active','in progress']\nRETURN count(DISTINCT proj) as result",
           params |-> <<>>]
     ELSE [cypher |-> "MATCH (p:Person)\n" \o _skill_and_clause(p.skills) \o _base_load_cte
                      \o av.clause \o "\nRETURN count(DISTINCT p) as result",
           params |-> av.params @@ [skills |-> LowerAll(p.skills)]]

_cypher_filtering(p, td) ==
  LET window == _window_from_availability(p.availability, td)
      asked == TruthyStr(p.availability.type) /\ p.availability.type # Some("none")
      avail_where ==
        IF asked
        THEN IF window # None
             THEN <<"coalesce(load,0) < 1.0 OR (latest_end IS NOT NULL AND date(latest_end) <= date($start))">>
             ELSE <<"coalesce(load,0) < 1.0">>
        ELSE <<"coalesce(load,0) < 1.0">>
      where_clauses ==
        avail_where
          \o (IF TruthyStr(p.seniority) THEN <<"toLower(coalesce(p.seniority,'')) CONTAINS toLower($sen)">> ELSE <<>>)
          \o (IF TruthyStr(p.timezone) THEN <<"p.timezone = $tz">> ELSE <<>>)
      prm ==
        (IF TruthyStr(p.timezone) THEN [tz |-> p.timezone[1]] ELSE <<>>)
          @@ (IF TruthyStr(p.seniority) THEN [sen |-> p.seniority[1]] ELSE <<>>)
          @@ (IF asked /\ window # None
              THEN [start |-> window[1].start, end |-> window[1].end] ELSE <<>>)
          @@ [skills |-> LowerAll(p.skills)]
  IN [cypher |-> "MATCH (p:Person)\n" \o _skill_and_clause(p.skills) \o _base_load_cte
                 \o "WHERE " \o Join(where_clauses, " AND ") \o "\n"
                 \o "OPTIONAL MATCH (p)-[:HAS_SKILL]->(s:Skill)\n"
                 \o "WITH p, load, collect(DISTINCT coalesce(s.id,s.name)) as skills\n"
                 \o "RETURN p.name as name, p.role as role, p.seniority as seniority, round((1.0 - coalesce(load,0))*100,0) as availability_percent, skills\nORDER BY availability_percent DESC LIMIT 50",
      params |-> prm]

_cypher_aggregation(p, td) ==
  IF p.aggregation_kind = Some("skills_by_grad_year")
  THEN [cypher |-> "\n            MATCH (p:Person)-[:HAS_SKILL]->(s:Skill)\n            WHERE p.graduation_year IS NOT NULL\n            WITH p.graduation_year as graduation_year,\n                coalesce(s.id,s.name) as skill,\n                count(DISTINCT p) as people_count\n            RETURN graduation_year, skill, people_count\n            ORDER BY graduation_year DESC, people_count DESC\n            LIMIT 50\n            ",
        params |-> <<>>]
  ELSE IF p.aggregation_kind = Some("capacity_total")
  THEN LET av == _availability_clause(p.availability, td)
       IN [cypher |-> "MATCH (p:Person)\n" \o _base_load_cte
                      \o (IF av.clause # "" THEN av.clause \o "\n" ELSE "")
                      \o "RETURN round(sum(1.0 - coalesce(load,0)),2) as total_capacity, count(p) as people",
           params |-> av.params]
  ELSE IF p.aggregation_kind = Some("avg_rate")
  THEN [cypher |-> "MATCH (p:Person)\n" \o _skill_and_clause(p.skills)
                   \o "RETURN\n    round(avg(coalesce(p.rate,0)), 2) as avg_rate,\n    count(p) as people",
        params |-> [skills |-> LowerAll(p.skills)]]
  ELSE [cypher |-> "MATCH (p:Person)\n" \o _skill_and_clause(p.skills)
                   \o "RETURN\n    round(avg(coalesce(p.years_experience, p.years_of_experience)), 2) as avg_years,\n    count(p) as people",
        params |-> [skills |-> LowerAll(p.skills)]]

_cypher_reasoning(p) ==
  LET kind == LowerStr(IF TruthyStr(p.reasoning.kind) THEN p.reasoning.kind[1] ELSE "collab")
  IN IF kind = "collab_success"
     THEN [cypher |-> "\n            MATCH (a:Person)-[:WORKED_AT]->(c:Company)<-[:WORKED_AT]-(b:Person)\n            WHERE a.name < b.name\n            WITH a, b,\n                collect(DISTINCT c.name) as shared_companies,\n                count(DISTINCT c) as shared_count,\n                coalesce(a.performance_score, 0.0) as a_score,\n                coalesce(b.performance_score, 0.0) as b_score\n            WHERE shared_count >= 2 OR (a_score >= 7.5 AND b_score >= 7.5)\n            RETURN\n                a.name as person_a,\n                b.name as person_b,\n                shared_companies,\n                shared_count,\n                a_score,\n                b_score\n            ORDER BY shared_count DESC, (a_score + b_score) DESC\n            LIMIT 30\n            ",
           params |-> <<>>]
     ELSE IF kind = "collab"
     THEN IF TruthyStr(p.reasoning.focus_person)
          THEN [cypher |-> "\n                MATCH (p1:Person {name: $name})-[:WORKED_AT]->(c:Company)<-[:WORKED_AT]-(p2:Person)\n                WHERE p1.name <> p2.name\n                WITH p1, p2, collect(DISTINCT c.name) as shared_companies, count(DISTINCT c) as shared_count\n                RETURN\n                    p1.name as focus_person,\n                    p2.name as collaborator,\n                    shared_companies,\n                    shared_count\n                ORDER BY shared_count DESC\n                LIMIT 30\n                ",
                params |-> [name |-> p.reasoning.focus_person[1]]]
          ELSE [cypher |-> "\n            MATCH (a:Person)-[:WORKED_AT]->(c:Company)<-[:WORKED_AT]-(b:Person)\n            WHERE a.name < b.name\n            WITH a, b, collect(DISTINCT c.name) as shared_companies, count(DISTINCT c) as shared_count\n            WHERE shared_count >= 1\n            RETURN a.name as person_a, b.name as person_b, shared_companies, shared_count\n            ORDER BY shared_count DESC\n            LIMIT 30\n            ",
                params |-> <<>>]
     ELSE IF kind = "uni_top"
     THEN [cypher |-> "\n            MATCH (tp:Person)-[:STUDIED_AT]->(u:University)\n            WHERE coalesce(tp.performance_score,0) >= 8.0\n            MATCH (p:Person)-[:STUDIED_AT]->(u)\n            WHERE p.name <> tp.name\n            RETURN\n                tp.name as top_performer,\n                coalesce(tp.performance_score,0) as top_score,\n                p.name as colleague,\n                coalesce(p.performance_score,0) as colleague_score,\n                u.name as shared_university\n            ORDER BY top_score DESC, colleague_score DESC\n            LIMIT 50\n            ",
           params |-> <<>>]
     ELSE IF kind = "uni_pair"
     THEN [cypher |-> "\n            MATCH (a:Person)-[:STUDIED_AT]->(u:University)<-[:STUDIED_AT]-(b:Person)\n            WHERE a.name < b.name\n            RETURN a.name as developer_1, b.name as developer_2, u.name as shared_university\n            LIMIT 30\n            ",
           params |-> <<>>]
     ELSE [cypher |-> "MATCH (n) RETURN n LIMIT 5", params |-> <<>>]

\* a temporal compiler without the branch for after_end
_cypher_temporal_without_after_end(p, td) ==
  LET window == _window_from_availability(p.availability, td)
  IN IF window # None
     THEN [cypher |-> "MATCH (p:Person)\n" \o _base_load_cte
                      \o "WITH p, load, latest_end\nWHERE coalesce(load,0) < 1.0 OR (latest_end IS NOT NULL AND date(latest_end) <= date($start))\n"
                      \o "RETURN p.name as name, p.role as role, round((1.0 - coalesce(load,0))*100,0) as availability_percent, latest_end as available_from\nORDER BY availability_percent DESC LIMIT 30",
           params |-> [start |-> window[1].start, end |-> window[1].end]]
     ELSE [cypher |-> "MATCH (p:Person)\n" \o _base_load_cte
                      \o "WITH p, load, latest_end WHERE coalesce(load,0) < 1.0\n"
                      \o "RETURN p.name as name, p.role as role, round((1.0 - coalesce(load,0))*100,0) as availability_percent, latest_end as available_from\nORDER BY availability_percent DESC LIMIT 30",
           params |-> <<>>]

_cypher_temporal(p, td) ==
  LET window == _window_from_availability(p.availability, td)
  IN IF p.availability.type = Some("after_end")
     THEN [cypher |-> "MATCH (p:Person)-[r:ASSIGNED_TO]->(proj:Project)\nWHERE coalesce(r.end_date, proj.end_date) IS NOT NULL\nWITH p, proj, r, coalesce(r.end_date, proj.end_date) as avail_date, coalesce(r.allocation_percentage, coalesce(r.allocation,0.0)) as alloc\nWITH p, proj, avail_date, sum(alloc) as load_at_end\nRETURN p.name as name, coalesce(proj.title, proj.name) as current_project, avail_date as available_from, round((1.0 - coalesce(load_at_end,0.0))*100,0) as availability_percent\nORDER BY available_from ASC LIMIT 30",
           params |-> <<>>]
     ELSE IF window # None
     THEN [cypher |-> "MATCH (p:Person)\n" \o _base_load_cte
                      \o "WITH p, load, latest_end\nWHERE coalesce(load,0) < 1.0 OR (latest_end IS NOT NULL AND date(latest_end) <= date($start))\n"
                      \o "RETURN p.name as name, p.role as role, round((1.0 - coalesce(load,0))*100,0) as availability_percent, latest_end as available_from\nORDER BY availability_percent DESC LIMIT 30",
           params |-> [start |-> window[1].start, end |-> window[1].end]]
     ELSE [cypher |-> "MATCH (p:Person)\n" \o _base_load_cte
                      \o "WITH p, load, latest_end WHERE coalesce(load,0) < 1.0\n"
                      \o "RETURN p.name as name, p.role as role, round((1.0 - coalesce(load,0))*100,0) as availability_percent, latest_end as available_from\nORDER BY availability_percent DESC LIMIT 30",
           params |-> <<>>]

RISK_HIGH_THRESHOLD == 90
RISK_MED_THRESHOLD == 50

_cypher_risk_spof ==
  [cypher |-> "MATCH (p:Person)-[:HAS_SKILL]->(s:Skill)\nWITH toLower(trim(coalesce(s.id, s.name, ''))) as skill, collect(DISTINCT p) as owners\nWHERE skill <> '' AND size(owners) = 1\nWITH skill, owners[0] as owner\nOPTIONAL MATCH (owner)-[r:ASSIGNED_TO]->(proj:Project)\nWITH skill, owner,\n     sum(coalesce(r.allocation_percentage, coalesce(r.allocation, 0.0))) as load,\n     collect({title: coalesce(proj.title, proj.name),\n              allocation: coalesce(r.allocation_percentage, coalesce(r.allocation, 0.0)),\n              end_date: coalesce(r.end_date, proj.end_date)}) as projects\nWITH skill, owner, coalesce(load, 0.0) as load, projects,\n     round((1.0 - coalesce(load, 0.0)) * 100, 0) as availability_percent\nWITH skill, owner, load, availability_percent, projects,\n     CASE WHEN load >= $HIGH THEN 'HIGH'\n          WHEN load >= $MED THEN 'MEDIUM'\n          ELSE 'LOW' END as risk_level,\n     CASE WHEN load >= $HIGH THEN 3 WHEN load >= $MED THEN 2 ELSE 1 END as risk_rank\nRETURN skill, owner.name as owner_name, load, availability_percent, risk_level, projects\nORDER BY risk_rank DESC, load DESC, skill ASC\nLIMIT 50",
   params |-> [HIGH |-> RISK_HIGH_THRESHOLD, MED |-> RISK_MED_THRESHOLD]]

_cypher_scenario(p) ==
  IF p.scenario.kind = Some("gap")
  THEN [cypher |-> "MATCH (pr:Project)-[:REQUIRES]->(s:Skill) WHERE toLower(coalesce(pr.status,''))='new rfp'\nWITH collect(DISTINCT toLower(coalesce(s.id,s.name,''))) as required_skills\nMATCH (p:Person)\nOPTIONAL MATCH (p)-[a:ASSIGNED_TO]->(proj:Project)\nWITH required_skills, p, sum(coalesce(a.allocation_percentage, a.allocation, 0.0)) as load\nWHERE coalesce(load,0) < 1.0\nOPTIONAL MATCH (p)-[:HAS_SKILL]->(s:Skill)\nWITH required_skills, collect(DISTINCT toLower(coalesce(s.id,s.name,''))) as available_skills\nRETURN required_skills, available_skills, [x IN required_skills WHERE NOT x IN available_skills] as missing_skills",
        params |-> <<>>]
  ELSE IF p.scenario.kind = Some("risk")
  THEN _cypher_risk_spof
  ELSE IF p.scenario.kind = Some("team_opt") /\ TruthyStr(p.rfp_keyword)
  THEN [cypher |-> "\n            MATCH (r:RFP)\n            WHERE toLower(coalesce(r.title, r.name, r.description, '')) CONTAINS toLower($rfp_kw)\n            OPTIONAL MATCH (r)-[:NEEDS]->(req:Skill)\n            WITH r, collect(DISTINCT toLower(coalesce(req.id, req.name, ''))) AS required_skills\n            WHERE size(required_skills) > 0\n\n            MATCH (p:Person)\n            OPTIONAL MATCH (p)-[a:ASSIGNED_TO]->(:Project)\n            WITH r, required_skills, p,\n                sum(coalesce(a.allocation_percentage, a.allocation, 0.0)) AS load\n            WHERE (1.0 - coalesce(load,0.0)) >= $alloc\n\n            OPTIONAL MATCH (p)-[:HAS_SKILL]->(ps:Skill)\n            WITH r, required_skills, p, load,\n                collect(DISTINCT toLower(coalesce(ps.id, ps.name, ''))) AS person_skills\n\n            WITH r, required_skills, p, load,\n                [s IN required_skills WHERE s IN person_skills] AS matched,\n                [s IN required_skills WHERE NOT s IN person_skills] AS missing\n\n            RETURN\n            r.title AS rfp_title,\n            r.budget AS rfp_budget,\n            required_skills,\n            p.name AS name,\n            p.role AS role,\n            p.rate AS rate,\n            round((1.0 - coalesce(load,0.0)) * 100, 0) AS availability_percent,\n            matched,\n            missing,\n            size(matched) AS matched_count,\n            size(missing) AS missing_count\n            ORDER BY missing_count ASC, matched_count DESC, rate ASC\n            LIMIT 200\n            ",
        params |-> [rfp_kw |-> p.rfp_keyword[1],
                    alloc |-> IF TruthyNum(p.team.allocation) THEN p.team.allocation[1] ELSE 100]]
  ELSE LET team_size == IF TruthyNum(p.team.size) THEN p.team.size[1] ELSE 5
           alloc == IF TruthyNum(p.team.allocation) THEN p.team.allocation[1] ELSE 100
       IN [cypher |-> "MATCH (p:Person)-[:HAS_SKILL]->(s:Skill)\nWHERE $skills = [] OR toLower(coalesce(s.id,s.name,'')) IN $skills\nWITH p, collect(DISTINCT toLower(coalesce(s.id,s.name,''))) as skill_list\nOPTIONAL MATCH (p)-[r:ASSIGNED_TO]->(proj:Project)\nWITH p, skill_list, sum(coalesce(r.allocation_percentage, coalesce(r.allocation,0.0))) as load, max(coalesce(r.end_date, proj.end_date)) as latest_end\nWHERE coalesce(load,0) + $alloc <= 1.0 AND coalesce(p.rate,0) <= $max_rate\nRETURN p.name as name, p.role as role, p.rate as rate, coalesce(p.years_experience, p.years_of_experience) as years_exp,\n       round((1.0 - coalesce(load,0))*100,0) as availability_percent, skill_list\nORDER BY rate ASC, availability_percent DESC LIMIT $limit",
           params |-> [skills |-> LowerAll(p.skills),
                       max_rate |-> IF TruthyNum(p.budget.max_rate)
                                    THEN p.budget.max_rate[1] ELSE 1000000,
                       alloc |-> alloc,
                       limit |-> team_size * 3]]

\* a builder that keeps the text it last built and hands it to the next caller
\* of the same category with an empty parameter map
_build_cypher_from_plan_cached_text(p, td) ==
  LET wrap(b) == [cypher |-> Some(b.cypher), params |-> b.params]
  IN CASE other.cypher # None /\ other.plan # None
            /\ other.plan[1].query_type = p.query_type ->
              [cypher |-> other.cypher, params |-> <<>>]
       [] p.query_type = "counting" -> wrap(_cypher_counting(p, td))
       [] p.query_type = "filtering" -> wrap(_cypher_filtering(p, td))
       [] p.query_type = "aggregation" -> wrap(_cypher_aggregation(p, td))
       [] p.query_type = "reasoning" -> wrap(_cypher_reasoning(p))
       [] p.query_type = "temporal" -> wrap(_cypher_temporal(p, td))
       [] p.query_type = "scenario" -> wrap(_cypher_scenario(p))
       [] OTHER -> [cypher |-> None, params |-> <<>>]

\* builders.get(plan.query_type): (None, {}) when the category has no builder
_build_cypher_from_plan(p, td) ==
  LET wrap(b) == [cypher |-> Some(b.cypher), params |-> b.params]
  IN CASE p.query_type = "counting" -> wrap(_cypher_counting(p, td))
       [] p.query_type = "filtering" -> wrap(_cypher_filtering(p, td))
       [] p.query_type = "aggregation" -> wrap(_cypher_aggregation(p, td))
       [] p.query_type = "reasoning" -> wrap(_cypher_reasoning(p))
       [] p.query_type = "temporal" -> wrap(_cypher_temporal(p, td))
       [] p.query_type = "scenario" -> wrap(_cypher_scenario(p))
       [] OTHER -> [cypher |-> None, params |-> <<>>]

(***************************************************************************)
(* QueryPlan (pydantic defaults) and the plans the compilers are fed       *)
(***************************************************************************)
QueryPlan(qt) ==
  [query_type |-> qt, skills |-> <<>>, seniority |-> None, timezone |-> None,
   availability |-> [type |-> Some("none")],
   budget |-> [max_rate |-> None],
   team |-> [size |-> None, allocation |-> None],
   scenario |-> [kind |-> Some("none")],
   reasoning |-> [kind |-> Some("collab"), focus_person |-> None],
   aggregation_kind |-> None, rfp_keyword |-> None,
   certification_mode |-> FALSE, project_mode |-> FALSE]

Categories ==
  {"counting", "filtering", "aggregation", "reasoning", "temporal", "scenario"}

AvailTypes ==
  {"none", "now", "next_month", "this_month", "quarter", "after_end"}

SkillLists == {<<>>, <<"Python">>, <<"Python", "Aws">>}

PlanSpace ==
  {[QueryPlan("counting") EXCEPT !.certification_mode = cm, !.project_mode = pm,
                                 !.skills = s, !.availability.type = Some(a)] :
      cm \in BOOLEAN, pm \in BOOLEAN, s \in SkillLists, a \in AvailTypes}
  \cup
  {[QueryPlan("filtering") EXCEPT !.skills = s, !.seniority = sen, !.timezone = tz,
                                  !.availability.type = Some(a)] :
      s \in SkillLists, sen \in {None, Some("senior")}, tz \in {None, Some("PT")},
      a \in AvailTypes}
  \cup
  {[QueryPlan("aggregation") EXCEPT !.aggregation_kind = k, !.skills = s,
                                    !.availability.type = Some(a)] :
      k \in {None, Some("none"), Some("skills_by_grad_year"), Some("capacity_total"),
             Some("avg_rate"), Some("avg_years")},
      s \in SkillLists, a \in AvailTypes}
  \cup
  {[QueryPlan("reasoning") EXCEPT !.reasoning.kind = Some(k), !.reasoning.focus_person = fp] :
      k \in {"collab", "collab_success", "uni_top", "uni_pair", "mentor"},
      fp \in {None, Some("Jacob Young")}}
  \cup
  {[QueryPlan("temporal") EXCEPT !.availability.type = Some(a), !.skills = s] :
      a \in AvailTypes, s \in SkillLists}
  \cup
  {[QueryPlan("scenario") EXCEPT !.scenario.kind = Some(k), !.rfp_keyword = r, !.skills = s,
                                 !.budget.max_rate = b, !.team.size = t[1],
                                 !.team.allocation = t[2], !.certification_mode = cm] :
      k \in {"none", "team_opt", "gap", "risk"}, r \in {None, Some("fintech")},
      s \in SkillLists, b \in {None, Some(80)},
      t \in {<<None, None>>, <<Some(3), Some(50)>>}, cm \in BOOLEAN}

(***************************************************************************)
(* Planning: keyword rules, then the language model                        *)
(***************************************************************************)
known ==
  <<"python", "java", "react", "node", "node.js", "aws", "kubernetes",
    "terraform", "docker", "security", "machine learning", "ml", "fintech",
    "typescript", "fastapi", "django", "spring", "gcp", "azure">>

\* The second loop of the source (tokens split on with/and/&/,) appends
\* tok.title() only for a token that is one of seven vocabulary words and not
\* yet listed; such a token is a substring of q, so the first loop has already
\* listed it: the loop never appends.
RECURSIVE SkillsFrom(_, _)
SkillsFrom(q, i) ==
  IF i > Len(known) THEN <<>>
  ELSE LET sk == known[i]
           name == IF sk = "node.js" THEN "Node.js"
                   ELSE IF sk = "ml" THEN "Machine Learning" ELSE Title(sk)
       IN (IF Contains(q, sk) THEN <<name>> ELSE <<>>) \o SkillsFrom(q, i + 1)

_extract_skills_from_text(qn) == Dedup(SkillsFrom(LowerStr(qn), 1))

\* re.search(r"\b(pt|et|cet|gmt|utc)\b", q): the leftmost whole-word code
TimezoneCode(q) ==
  LET at(i, w) == /\ Slice(q, i, i + Len(w) - 1) = w
                  /\ ~IsWordChar(CharAt(q, i - 1))
                  /\ ~IsWordChar(CharAt(q, i + Len(w)))
      codes == {"pt", "et", "cet", "gmt", "utc"}
      i0 == Leftmost({i \in 1..Len(q) : \E w \in codes : i + Len(w) - 1 <= Len(q) /\ at(i, w)})
  IN IF i0 = 0 THEN None
     ELSE Some(CHOOSE w \in codes : i0 + Len(w) - 1 <= Len(q) /\ at(i0, w))

\* re.search(r"\$?(\d{2,5})", q): the first run of two or more digits, cut to five
BudgetNumber(q) ==
  LET i0 == Leftmost({i \in 1..Len(q) : IsDigit(CharAt(q, i)) /\ IsDigit(CharAt(q, i + 1))})
      e == DigitsEnd(q, i0)
  IN IF i0 = 0 THEN None
     ELSE Some(ToInt(Slice(q, i0, IF e - i0 + 1 > 5 THEN i0 + 4 ELSE e)))

\* re.search(r"(\d+) (?:people|developers|engineers|team)", q)
TeamSize(q) ==
  LET words == {"people", "developers", "engineers", "team"}
      ok(i) == /\ IsDigit(CharAt(q, i))
               /\ LET e == DigitsEnd(q, i)
                  IN /\ CharAt(q, e + 1) = " "
                     /\ \E w \in words : Slice(q, e + 2, e + 1 + Len(w)) = w
      i0 == Leftmost({i \in 1..Len(q) : ok(i)})
  IN IF i0 = 0 THEN None ELSE Some(ToInt(Slice(q, i0, DigitsEnd(q, i0))))

\* re.search(r"(0\.\d+|1\.0)", q); the value is kept in percent
TeamAllocation(q) ==
  LET frac(i) == Slice(q, i, i + 1) = "0." /\ IsDigit(CharAt(q, i + 2))
      one(i) == Slice(q, i, i + 2) = "1.0"
      i0 == Leftmost({i \in 1..Len(q) : frac(i) \/ one(i)})
      e == DigitsEnd(q, i0 + 2)
  IN IF i0 = 0 THEN None
     ELSE IF frac(i0)
     THEN Some((ToInt(Slice(q, i0 + 2, e)) * 100) \div Pow10(e - i0 - 1))
     ELSE Some(100)

\* [A-Z][a-z]+ at i: index of its last letter, 0 when it does not match
CapWordEnd(s, i) ==
  IF IsUpperCh(CharAt(s, i)) /\ IsLowerCh(CharAt(s, i + 1)) THEN LowersEnd(s, i + 1) ELSE 0

\* (?:\s+[A-Z][a-z]+)* after index e, greedy: index of the last letter matched
RECURSIVE MoreCapWords(_, _)
MoreCapWords(s, e) ==
  LET sp == SpacesEnd(s, e + 1)
      w == IF sp >= e + 1 THEN CapWordEnd(s, sp + 1) ELSE 0
  IN IF w = 0 THEN e ELSE MoreCapWords(s, w)

\* re.search(r"with\s+([A-Z][a-z]+(?:\s+[A-Z][a-z]+)+)", question), else
\* re.search(r"\b([A-Z][a-z]+\s+[A-Z][a-z]+)\b", question)
FocusPerson(qn) ==
  LET nameAt(i) ==        \* end of a two-or-more-word name starting at i, else 0
        LET e1 == CapWordEnd(qn, i)
            e2 == IF e1 = 0 THEN 0 ELSE MoreCapWords(qn, e1)
        IN IF e1 # 0 /\ e2 > e1 THEN e2 ELSE 0
      withAt(i) ==
        /\ Slice(qn, i, i + 3) = "with"
        /\ SpacesEnd(qn, i + 4) >= i + 4
        /\ nameAt(SpacesEnd(qn, i + 4) + 1) # 0
      w0 == Leftmost({i \in 1..Len(qn) : withAt(i)})
      pairAt(i) ==        \* end of exactly two words between word boundaries
        LET e1 == CapWordEnd(qn, i)
            sp == IF e1 = 0 THEN 0 ELSE SpacesEnd(qn, e1 + 1)
            e2 == IF e1 # 0 /\ sp >= e1 + 1 THEN CapWordEnd(qn, sp + 1) ELSE 0
        IN IF ~IsWordChar(CharAt(qn, i - 1)) /\ e2 # 0 /\ ~IsWordChar(CharAt(qn, e2 + 1))
           THEN e2 ELSE 0
      p0 == Leftmost({i \in 1..Len(qn) : pairAt(i) # 0})
  IN IF w0 # 0
     THEN LET b == SpacesEnd(qn, w0 + 4) + 1 IN Some(Slice(qn, b, nameAt(b)))
     ELSE IF p0 # 0 THEN Some(Slice(qn, p0, pairAt(p0)))
     ELSE None

_heuristic_plan(qn) ==
  LET q == LowerStr(qn)
      has(k) == Contains(q, k)
      any(ks) == \E k \in ks : has(k)
      qt ==
        IF any({"how many", "count", "number of"}) THEN "counting"
        ELSE IF (has("optimal") /\ has("team")) \/ (has("team") /\ has("budget"))
                \/ (has("team") /\ has("budget constraints")) THEN "scenario"
        ELSE IF has("gap") THEN "scenario"
        ELSE IF has("risk") \/ has("single point") \/ has("single points of failure")
                \/ has("spof") THEN "scenario"
        ELSE IF any({"worked together", "worked with", "same university"}) THEN "reasoning"
        ELSE IF any({"available next month", "next month", "after", "ends", "this month",
                     "q1", "q2", "q3", "q4"}) THEN "temporal"
        ELSE IF any({"average", "avg", "total", "sum", "distribution"}) THEN "aggregation"
        ELSE IF any({"find", "list", "show", "available", "filter"}) THEN "filtering"
        ELSE ""
      counting == any({"how many", "count", "number of"})
      team_opt == ~counting /\ ((has("optimal") /\ has("team")) \/ (has("team") /\ has("budget")))
      scenario_kind ==
        IF qt # "scenario" THEN "none"
        ELSE IF team_opt THEN "team_opt"
        ELSE IF has("gap") THEN "gap" ELSE "risk"
      reasoning_kind ==
        IF qt # "reasoning" THEN "collab"
        ELSE IF has("same university") /\ (has("top performer") \/ has("top performers"))
        THEN "uni_top"
        ELSE IF has("same university") THEN "uni_pair"
        ELSE IF has("success") \/ has("successfully") THEN "collab_success"
        ELSE "collab"
      aggregation_kind ==
        IF qt # "aggregation" THEN "none"
        ELSE IF has("distribution") /\ (has("graduation year") \/ has("graduation"))
        THEN "skills_by_grad_year"
        ELSE IF has("capacity") THEN "capacity_total"
        ELSE IF has("rate") THEN "avg_rate"
        ELSE "avg_years"
      project_mode == qt = "counting" /\ has("project")
      certification_mode ==
        any({"certification", "certifications", "certified", "certs", "cert "})
      rfp_keyword0 == None
      skills == IF TruthyStr(rfp_keyword0) THEN <<>> ELSE _extract_skills_from_text(qn)
      seniority == IF has("senior") THEN Some("senior") ELSE None
      tz_code == IF has("timezone") \/ has("time zone") THEN TimezoneCode(q) ELSE None
      timezone ==
        IF tz_code # None THEN Some(Join([i \in 1..Len(tz_code[1]) |-> Upper(CharAt(tz_code[1], i))], ""))
        ELSE IF has("pacific") THEN Some("PT")
        ELSE IF has("eastern") THEN Some("ET")
        ELSE IF has("central european") \/ has("cest") \/ has("cet") THEN Some("CET")
        ELSE IF has("gmt") \/ has("greenwich") THEN Some("GMT")
        ELSE IF has("utc") THEN Some("UTC")
        ELSE None
      availability ==
        IF has("next month") THEN "next_month"
        ELSE IF has("this month") THEN "this_month"
        ELSE IF any({"q1", "q2", "q3", "q4"}) THEN "quarter"
        ELSE IF has("after") \/ has("ends") THEN "after_end"
        ELSE IF has("available") THEN "now"
        ELSE "none"
      m == BudgetNumber(q)
      max_rate == IF m # None /\ has("budget") THEN m ELSE None
      rfp_keyword ==
        IF qt = "scenario" /\ scenario_kind = "team_opt" /\ has("rfp")
        THEN IF has("fintech") THEN Some("fintech")
             ELSE IF has("healthcare") THEN Some("healthcare")
             ELSE IF has("ecommerce") \/ has("e-commerce") THEN Some("ecommerce")
             ELSE rfp_keyword0
        ELSE rfp_keyword0
      focus_person == IF qt = "reasoning" THEN FocusPerson(qn) ELSE None
  IN IF qt = "" THEN None
     ELSE Some([query_type |-> qt, skills |-> skills, seniority |-> seniority,
                timezone |-> timezone,
                availability |-> [type |-> Some(availability)],
                budget |-> [max_rate |-> max_rate],
                team |-> [size |-> TeamSize(q), allocation |-> TeamAllocation(q)],
                scenario |-> [kind |-> Some(scenario_kind)],
                reasoning |-> [kind |-> Some(reasoning_kind), focus_person |-> focus_person],
                aggregation_kind |-> Some(aggregation_kind),
                rfp_keyword |-> rfp_keyword,
                certification_mode |-> certification_mode,
                project_mode |-> project_mode])

\* _llm_plan: the model's JSON parsed into a QueryPlan, None when the call raises
\* or the content does not parse; lm is that outcome
_llm_plan(qn, lm) == lm

plan_question(qn, lm) ==
  LET heur == _heuristic_plan(qn)
  IN IF heur # None THEN heur ELSE _llm_plan(qn, lm)

(***************************************************************************)
(* Answer formatting.  The answer is [head, lines, raised]: the fixed text, *)
(* the values shown per listed row, and whether formatting raised.         *)
(* A row is a record (key -> None | Some(value)); an absent key is absent   *)
(* from its DOMAIN.                                                         *)
(***************************************************************************)
Get(r, k) == IF k \in DOMAIN r THEN r[k] ELSE None
GetD(r, k, d) == IF k \in DOMAIN r THEN r[k] ELSE Some(d)
FirstN(xs, n) == SubSeq(xs, 1, IF Len(xs) < n THEN Len(xs) ELSE n)

Answer(head, lines) == [head |-> head, lines |-> lines, raised |-> FALSE]
Raised == [head |-> "", lines |-> <<>>, raised |-> TRUE]

RECURSIVE IntToStr(_)
IntToStr(n) == IF n < 10 THEN Digit(n) ELSE IntToStr(n \div 10) \o Digit(n % 10)

ValueToStr(v) == IF v = None THEN "None" ELSE IntToStr(v[1])

\* code-point order of two strings (Python's str <)
CharRank(c) ==
  Leftmost({i \in 1..92 : CharAt(" !#$%&'()*+,-./0123456789:;<=>?@ABCDEFGHIJKLMNOPQRSTUVWXYZ[]^_abcdefghijklmnopqrstuvwxyz{|}~", i) = c})

RECURSIVE StrLess(_, _)
StrLess(a, b) ==
  IF b = "" THEN FALSE
  ELSE IF a = "" THEN TRUE
  ELSE IF CharAt(a, 1) = CharAt(b, 1) THEN StrLess(Slice(a, 2, Len(a)), Slice(b, 2, Len(b)))
  ELSE CharRank(CharAt(a, 1)) < CharRank(CharAt(b, 1))

\* the de-duplication step left out
UniqueByName_keep_all(rs) == rs

\* the rows whose name was not seen before, in order
RECURSIVE UniqueByName(_)
UniqueByName(rs) ==
  IF rs = <<>> THEN <<>>
  ELSE LET init == UniqueByName(SubSeq(rs, 1, Len(rs) - 1))
           last == rs[Len(rs)]
       IN IF \E i \in DOMAIN init : Get(init[i], "name") = Get(last, "name")
          THEN init ELSE Append(init, last)

SelectSeq2(rs, Test(_)) == SelectSeq(rs, Test)

TEAM_LIMIT == 5

\* a greedy loop that takes the first listed candidate of each role
RECURSIVE PickTeam_first_listed(_, _, _)
PickTeam_first_listed(unique_rows, roles, st) ==
  IF roles = {} THEN st
  ELSE LET role == CHOOSE r \in roles : \A o \in roles : o = r \/ StrLess(r[1], o[1])
           cand == SelectSeq2(unique_rows, LAMBDA r : GetD(r, "role", "General") = role)
           st1 == [team |-> Append(st.team, cand[1]),
                   total_rate |-> st.total_rate + GetD(cand[1], "rate", 0)[1],
                   raised |-> FALSE]
       IN IF Len(st1.team) >= TEAM_LIMIT THEN st1
          ELSE PickTeam_first_listed(unique_rows, roles \ {role}, st1)

\* One pass of the greedy loop per role, roles in sorted order: candidates[0]
\* of the stable sort by (-len(matched), -availability_percent, rate) joins the
\* team; the loop stops once TEAM_LIMIT are chosen.  A None among the values
\* negated, compared or summed is a TypeError (st.raised).
RECURSIVE PickTeam(_, _, _)
PickTeam(unique_rows, roles, st) ==
  IF roles = {} \/ st.raised THEN st
  ELSE LET role == CHOOSE r \in roles : \A o \in roles : o = r \/ StrLess(r[1], o[1])
           cand == SelectSeq2(unique_rows, LAMBDA r : GetD(r, "role", "General") = role)
           null(r, k) == k \in DOMAIN r /\ r[k] = None
           k12(r) == <<0 - Len(GetD(r, "matched", <<>>)[1]),
                       0 - GetD(r, "availability_percent", 0)[1]>>
           rate(r) == GetD(r, "rate", 1000)
           keyError ==
             \/ \E i \in DOMAIN cand : null(cand[i], "matched") \/ null(cand[i], "availability_percent")
             \/ \E i, j \in DOMAIN cand :
                  i < j /\ k12(cand[i]) = k12(cand[j]) /\ (rate(cand[i]) = None \/ rate(cand[j]) = None)
           less(x, y) == \/ k12(x)[1] < k12(y)[1]
                         \/ k12(x)[1] = k12(y)[1] /\ k12(x)[2] < k12(y)[2]
                         \/ k12(x) = k12(y) /\ rate(x)[1] < rate(y)[1]
           best == cand[Leftmost({i \in DOMAIN cand :
                                    \A j \in DOMAIN cand \ {i} : ~less(cand[j], cand[i])})]
       IN IF keyError \/ GetD(best, "rate", 0) = None
          THEN [st EXCEPT !.raised = TRUE]
          ELSE LET st1 == [team |-> Append(st.team, best),
                           total_rate |-> st.total_rate + GetD(best, "rate", 0)[1],
                           raised |-> FALSE]
               IN IF Len(st1.team) >= TEAM_LIMIT THEN st1
                  ELSE PickTeam(unique_rows, roles \ {role}, st1)

\* the team_opt branch of _format_answer (rows carrying matched or rfp_title)
FormatTeam(rs) ==
  LET unique_rows == UniqueByName(rs)
      roles == {GetD(unique_rows[i], "role", "General") : i \in DOMAIN unique_rows}
      st == PickTeam(unique_rows, roles, [team |-> <<>>, total_rate |-> 0, raised |-> FALSE])
  IN IF (None \in roles /\ Cardinality(roles) > 1) \/ st.raised THEN Raised
     ELSE [head |-> "Proposed Optimal Team Composition:",
           lines |-> st.team,
           total_rate |-> st.total_rate,
           candidates |-> Len(unique_rows),
           raised |-> FALSE]

EmptyMessage(p) ==
  LET skills_txt == IF p.skills # <<>> THEN Join(p.skills, ", ") ELSE "N/A"
      constraints ==
        (IF TruthyStr(p.seniority) THEN <<"seniority=" \o p.seniority[1]>> ELSE <<>>)
          \o (IF TruthyStr(p.timezone) THEN <<"timezone=" \o p.timezone[1]>> ELSE <<>>)
          \o (IF TruthyStr(p.availability.type) /\ p.availability.type # Some("none")
              THEN <<"availability=" \o p.availability.type[1]>> ELSE <<>>)
      c_txt == IF constraints # <<>> THEN Join(constraints, ", ") ELSE "no extra constraints"
  IN "No matches found in the graph for skills [" \o skills_txt \o "] with constraints ("
       \o c_txt \o "). Try removing 'senior' or asking without availability/time filters."

_format_answer(p, rs) ==
  IF rs = <<>>
  THEN IF p.query_type = "scenario" /\ p.scenario.kind = Some("risk")
       THEN Answer("Based on graph results: no single points of failure found.", <<>>)
       ELSE IF p.query_type = "scenario" /\ p.scenario.kind = Some("gap")
       THEN Answer("Based on graph results: no missing skills detected for pipeline projects.", <<>>)
       ELSE Answer(EmptyMessage(p), <<>>)
  ELSE IF p.query_type = "counting"
  THEN LET count_val == ValueToStr(Get(rs[1], "result"))
       IN IF p.project_mode
          THEN Answer("Based on graph results: " \o count_val \o " active projects.", <<>>)
          ELSE IF p.certification_mode
          THEN Answer("Based on graph results: " \o count_val \o " certified people.", <<>>)
          ELSE Answer("Based on graph results: " \o count_val \o " matching people.", <<>>)
  ELSE IF p.query_type = "scenario"
  THEN IF p.scenario.kind = Some("gap")
       THEN IF "skill" \in DOMAIN rs[1]
            THEN Answer("Based on graph results:", FirstN(rs, 20))
            ELSE Answer("Based on graph results: missing skills", <<Get(rs[1], "missing_skills")>>)
       ELSE IF p.scenario.kind = Some("risk")
       THEN IF \E i \in DOMAIN FirstN(rs, 20) : Get(rs[i], "load") = None
            THEN Raised
            ELSE Answer("Based on graph results:", FirstN(rs, 20))
       ELSE IF p.scenario.kind = Some("team_opt")
               /\ ("matched" \in DOMAIN rs[1] \/ "rfp_title" \in DOMAIN rs[1])
       THEN FormatTeam(rs)
       ELSE Answer("Based on graph results:", FirstN(rs, 20))
  ELSE IF p.query_type \in {"filtering", "temporal"}
  THEN Answer("Based on graph results:", FirstN(rs, 20))
  ELSE IF p.query_type = "aggregation"
  THEN IF p.aggregation_kind = Some("skills_by_grad_year")
       THEN Answer("Skills distribution by graduation year:", FirstN(rs, 30))
       ELSE IF p.aggregation_kind = Some("capacity_total")
       THEN Answer("Based on graph results: total spare capacity", <<rs[1]>>)
       ELSE IF p.aggregation_kind = Some("avg_rate")
       THEN Answer("Based on graph results: average hourly rate", <<rs[1]>>)
       ELSE Answer("Based on graph results: avg years", <<rs[1]>>)
  ELSE IF p.query_type = "reasoning"
  THEN Answer("Based on graph results:", FirstN(rs, 20))
  ELSE Answer("Results:", FirstN(rs, 20))

(***************************************************************************)
(* The graph store.  A snapshot is [people, required]: the Person nodes    *)
(* with their HAS_SKILL skills (id as stored; "" for a Skill node with     *)
(* neither id nor name) and ASSIGNED_TO relationships, and the skills the  *)
(* projects of status 'new rfp' REQUIRE.  The operators below give the     *)
(* rows the store returns for the query texts of the compilers.            *)
(***************************************************************************)
RECURSIVE Load(_)
Load(assigned) ==
  IF assigned = <<>> THEN 0 ELSE assigned[1].allocation + Load(Tail(assigned))

\* max(coalesce(r.end_date, proj.end_date)): nulls are skipped, null when none
LatestEnd(assigned) ==
  LET ends == {assigned[i].end_date[1] : i \in {j \in DOMAIN assigned : assigned[j].end_date # None}}
  IN IF ends = {} THEN None
     ELSE Some(CHOOSE e \in ends : \A o \in ends : o = e \/ StrLess(o, e))

\* every order of the rows of S that ORDER BY allows: no row after one it precedes
Orderings(S, Before(_, _)) ==
  LET n == Cardinality(S)
  IN {f \in [1..n -> S] :
        /\ \A i, j \in 1..n : i # j => f[i] # f[j]
        /\ \A i, j \in 1..n : i < j => ~Before(f[j], f[i])}

\* CASE WHEN load >= $HIGH THEN 'HIGH' WHEN load >= $MED THEN 'MEDIUM' ELSE 'LOW' END
risk_level_strict(load, prm) ==
  IF load > prm.HIGH THEN "HIGH" ELSE IF load > prm.MED THEN "MEDIUM" ELSE "LOW"

risk_level(load, prm) ==
  IF load >= prm.HIGH THEN "HIGH" ELSE IF load >= prm.MED THEN "MEDIUM" ELSE "LOW"

risk_rank(load, prm) ==
  IF load >= prm.HIGH THEN 3 ELSE IF load >= prm.MED THEN 2 ELSE 1

\* the query of _cypher_risk_spof
RiskRows(g, prm) ==
  LET key(s) == LowerStr(Strip(s))
      skill_keys == {key(s) : s \in UNION {p.skills : p \in g.people}}
      owners(k) == {p \in g.people : \E s \in p.skills : key(s) = k}
      kept == {k \in skill_keys : k # "" /\ Cardinality(owners(k)) = 1}
      row(k) ==
        LET owner == CHOOSE p \in owners(k) : TRUE
            load == Load(owner.assigned)
        IN [skill |-> Some(k), owner_name |-> owner.name, load |-> Some(load),
            availability_percent |-> Some(100 - load),
            risk_level |-> Some(risk_level(load, prm)),
            projects |-> Some(IF owner.assigned = <<>>
                              THEN <<[title |-> None, allocation |-> 0, end_date |-> None]>>
                              ELSE owner.assigned)]
      before(a, b) ==
        LET ra == risk_rank(a.load[1], prm)
            rb == risk_rank(b.load[1], prm)
        IN \/ ra > rb
           \/ ra = rb /\ a.load[1] > b.load[1]
           \/ ra = rb /\ a.load[1] = b.load[1] /\ StrLess(a.skill[1], b.skill[1])
  IN {FirstN(f, 50) : f \in Orderings({row(k) : k \in kept}, before)}

\* the gap query of _cypher_scenario
GapRows(g) ==
  LET required_skills == {LowerStr(s) : s \in g.required}
      spare == {p \in g.people : Load(p.assigned) < 100}
      held(p) == IF p.skills = {} THEN {""} ELSE {LowerStr(s) : s \in p.skills}
      available_skills == UNION {held(p) : p \in spare}
  IN IF spare = {} THEN {<<>>}
     ELSE {<<[required_skills |-> Some(required_skills),
              available_skills |-> Some(available_skills),
              missing_skills |-> Some({x \in required_skills : x \notin available_skills})]>>}

\* the query of _cypher_filtering, its WHERE conditions read from the text c
FilterRows(g, c, prm) ==
  LET by_skill == Contains(c, "WHERE ALL(x IN $skills WHERE ANY(sk IN skill_list WHERE sk CONTAINS x))")
      by_window == Contains(c, "coalesce(load,0) < 1.0 OR (latest_end IS NOT NULL AND date(latest_end) <= date($start))")
      by_load == Contains(c, "coalesce(load,0) < 1.0")
      by_sen == Contains(c, "toLower(coalesce(p.seniority,'')) CONTAINS toLower($sen)")
      by_tz == Contains(c, "p.timezone = $tz")
      skilled(p) ==
        /\ p.skills # {}
        /\ \A i \in DOMAIN prm.skills : \E s \in p.skills : Contains(LowerStr(s), prm.skills[i])
      free(p) ==
        IF by_window
        THEN \/ Load(p.assigned) < 100
             \/ /\ LatestEnd(p.assigned) # None
                /\ ~StrLess(prm.start, LatestEnd(p.assigned)[1])
        ELSE by_load => Load(p.assigned) < 100
      senior(p) ==
        Contains(LowerStr(IF p.seniority = None THEN "" ELSE p.seniority[1]), LowerStr(prm.sen))
      kept == {p \in g.people : /\ by_skill => skilled(p)
                                /\ free(p)
                                /\ by_sen => senior(p)
                                /\ by_tz => p.timezone = Some(prm.tz)}
      row(p) == [name |-> p.name, role |-> p.role, seniority |-> p.seniority,
                 availability_percent |-> Some(100 - Load(p.assigned)),
                 skills |-> Some(p.skills \ {""})]
      before(a, b) == a.availability_percent[1] > b.availability_percent[1]
  IN {FirstN(f, 50) : f \in Orderings({row(p) : p \in kept}, before)}

\* the companies a person WORKED_AT, the universities they STUDIED_AT and their
\* performance_score (in tenths; None when the property is not set)
WorkedAt(p) == IF "worked_at" \in DOMAIN p THEN p.worked_at ELSE {}
StudiedAt(p) == IF "studied_at" \in DOMAIN p THEN p.studied_at ELSE {}
Score(p) ==
  IF "performance_score" \in DOMAIN p /\ p.performance_score # None
  THEN p.performance_score[1] ELSE 0

\* WHERE a.name <> b.name (a null name compares to null, and the row is dropped)
name_differs(a, b) == a.name # None /\ b.name # None /\ a.name # b.name

\* WHERE a.name <> b.name in the place of WHERE a.name < b.name
name_before_or_after(a, b) == a.name # None /\ b.name # None /\ a.name # b.name

\* WHERE a.name < b.name
name_before(a, b) == a.name # None /\ b.name # None /\ StrLess(a.name[1], b.name[1])

\* the queries of _cypher_reasoning, told apart by the columns they return
ReasoningRows(g, c, prm) ==
  LET pairs == {ab \in g.people \X g.people :
                  name_before(ab[1], ab[2]) /\ WorkedAt(ab[1]) \cap WorkedAt(ab[2]) # {}}
      shared(ab) == WorkedAt(ab[1]) \cap WorkedAt(ab[2])
      by_count(x, y) == x.shared_count[1] > y.shared_count[1]
  IN IF Contains(c, "a_score")
     THEN LET row(ab) == [person_a |-> ab[1].name, person_b |-> ab[2].name,
                          shared_companies |-> Some(shared(ab)),
                          shared_count |-> Some(Cardinality(shared(ab))),
                          a_score |-> Some(Score(ab[1])), b_score |-> Some(Score(ab[2]))]
              kept == {ab \in pairs : \/ Cardinality(shared(ab)) >= 2
                                      \/ Score(ab[1]) >= 75 /\ Score(ab[2]) >= 75}
              before(x, y) ==
                \/ by_count(x, y)
                \/ /\ x.shared_count = y.shared_count
                   /\ x.a_score[1] + x.b_score[1] > y.a_score[1] + y.b_score[1]
          IN {FirstN(f, 30) : f \in Orderings({row(ab) : ab \in kept}, before)}
     ELSE IF Contains(c, "as focus_person")
     THEN LET around == {ab \in g.people \X g.people :
                         /\ ab[1].name = Some(prm.name)
                         /\ name_differs(ab[1], ab[2])
                         /\ WorkedAt(ab[1]) \cap WorkedAt(ab[2]) # {}}
              row(ab) == [focus_person |-> ab[1].name, collaborator |-> ab[2].name,
                          shared_companies |-> Some(shared(ab)),
                          shared_count |-> Some(Cardinality(shared(ab)))]
          IN {FirstN(f, 30) : f \in Orderings({row(ab) : ab \in around}, by_count)}
     ELSE IF Contains(c, "as person_a")
     THEN LET row(ab) == [person_a |-> ab[1].name, person_b |-> ab[2].name,
                          shared_companies |-> Some(shared(ab)),
                          shared_count |-> Some(Cardinality(shared(ab)))]
              kept == {ab \in pairs : Cardinality(shared(ab)) >= 1}
          IN {FirstN(f, 30) : f \in Orderings({row(ab) : ab \in kept}, by_count)}
     ELSE IF Contains(c, "as top_performer")
     THEN LET tops == {ab \in g.people \X g.people :
                         /\ Score(ab[1]) >= 80
                         /\ name_differs(ab[2], ab[1])
                         /\ StudiedAt(ab[1]) \cap StudiedAt(ab[2]) # {}}
              row(ab, u) == [top_performer |-> ab[1].name, top_score |-> Some(Score(ab[1])),
                             colleague |-> ab[2].name,
                             colleague_score |-> Some(Score(ab[2])),
                             shared_university |-> Some(u)]
              before(x, y) ==
                \/ x.top_score[1] > y.top_score[1]
                \/ x.top_score = y.top_score /\ x.colleague_score[1] > y.colleague_score[1]
          IN {FirstN(f, 50) :
                f \in Orderings(UNION {{row(ab, u) : u \in StudiedAt(ab[1]) \cap StudiedAt(ab[2])} :
                                         ab \in tops},
                                before)}
     ELSE LET both == {ab \in g.people \X g.people : name_before(ab[1], ab[2])}
              row(ab, u) == [developer_1 |-> ab[1].name, developer_2 |-> ab[2].name,
                             shared_university |-> Some(u)]
              unordered(x, y) == FALSE
          IN {FirstN(f, 30) :
                f \in Orderings(UNION {{row(ab, u) : u \in StudiedAt(ab[1]) \cap StudiedAt(ab[2])} :
                                         ab \in both},
                                unordered)}

\* count(DISTINCT p) over the people the counting query keeps; an aggregate
\* gives one row, and the reply with no row at all is kept as a possibility
CountRows(g, c, prm) ==
  LET by_skill == Contains(c, "MATCH (p)-[:HAS_SKILL]->(s:Skill)")
      by_window == Contains(c, "coalesce(load,0) < 1.0 OR (latest_end IS NOT NULL AND date(latest_end) <= date($start))")
      by_load == Contains(c, "WHERE coalesce(load,0) < 1.0")
      skilled(p) ==
        /\ p.skills # {}
        /\ \A i \in DOMAIN prm.skills : \E s \in p.skills : Contains(LowerStr(s), prm.skills[i])
      free(p) ==
        IF by_window
        THEN \/ Load(p.assigned) < 100
             \/ /\ LatestEnd(p.assigned) # None
                /\ ~StrLess(prm.start, LatestEnd(p.assigned)[1])
        ELSE by_load => Load(p.assigned) < 100
      kept == {p \in g.people : (by_skill => skilled(p)) /\ free(p)}
  IN {<<>>, <<[result |-> Some(Cardinality(kept))]>>}

\* the certifications a person EARNED
Earned(p) == IF "earned" \in DOMAIN p THEN p.earned ELSE {}

\* count(DISTINCT p) over the people the certification query keeps: those with
\* a certification whose lower-cased name contains one of $skills.  The load is
\* summed over the rows of (certification, assignment), so every assignment
\* counts once for each certification that matches
CertificationRows(g, c, prm) ==
  LET by_window == Contains(c, "coalesce(load,0) < 1.0 OR (latest_end IS NOT NULL AND date(latest_end) <= date($start))")
      by_load == Contains(c, "WHERE coalesce(load,0) < 1.0")
      matching(p) ==
        {ct \in Earned(p) : \E i \in DOMAIN prm.skills : Contains(LowerStr(ct), prm.skills[i])}
      certified(p) == matching(p) # {}
      load(p) == Cardinality(matching(p)) * Load(p.assigned)
      free(p) ==
        IF by_window
        THEN \/ load(p) < 100
             \/ /\ LatestEnd(p.assigned) # None
                /\ ~StrLess(prm.start, LatestEnd(p.assigned)[1])
        ELSE by_load => load(p) < 100
      kept == {p \in g.people : certified(p) /\ free(p)}
  IN {<<>>, <<[result |-> Some(Cardinality(kept))]>>}

\* the three queries of _cypher_temporal, told apart by their text
TemporalRows(g, c, prm) ==
  LET after_end == Contains(c, "as current_project")
      by_window == Contains(c, "coalesce(load,0) < 1.0 OR (latest_end IS NOT NULL AND date(latest_end) <= date($start))")
      ended(p) == {i \in DOMAIN p.assigned : p.assigned[i].end_date # None}
      end_row(p, i) ==
        [name |-> p.name, current_project |-> p.assigned[i].title,
         available_from |-> p.assigned[i].end_date,
         availability_percent |-> Some(100 - p.assigned[i].allocation)]
      sooner(a, b) == StrLess(a.available_from[1], b.available_from[1])
      free(p) ==
        \/ Load(p.assigned) < 100
        \/ /\ by_window
           /\ LatestEnd(p.assigned) # None
           /\ ~StrLess(prm.start, LatestEnd(p.assigned)[1])
      row(p) == [name |-> p.name, role |-> p.role,
                 availability_percent |-> Some(100 - Load(p.assigned)),
                 available_from |-> LatestEnd(p.assigned)]
      freer(a, b) == a.availability_percent[1] > b.availability_percent[1]
  IN IF after_end
     THEN {FirstN(f, 30) :
             f \in Orderings(UNION {{end_row(p, i) : i \in ended(p)} : p \in g.people}, sooner)}
     ELSE {FirstN(f, 30) : f \in Orderings({row(p) : p \in {x \in g.people : free(x)}}, freer)}

\* p.rate (in whole units per hour; None when the property is not set)
Rate(p) == IF "rate" \in DOMAIN p THEN p.rate ELSE None

\* a WHERE without the ceiling on the rate
fits_any_rate(load, rate, prm) == load + prm.alloc <= 100

\* WHERE coalesce(load,0) + $alloc <= 1.0 AND coalesce(p.rate,0) <= $max_rate
fits(load, rate, prm) ==
  /\ load + prm.alloc <= 100
  /\ (IF rate = None THEN 0 ELSE rate[1]) <= prm.max_rate

\* the generic team_opt query of _cypher_scenario
TeamOptRows(g, prm) ==
  LET wanted == {prm.skills[i] : i \in DOMAIN prm.skills}
      skill_list(p) == {k \in {LowerStr(s) : s \in p.skills} : wanted = {} \/ k \in wanted}
      kept == {p \in g.people : /\ skill_list(p) # {}
                                /\ fits(Load(p.assigned), Rate(p), prm)}
      row(p) == [name |-> p.name, role |-> p.role, rate |-> Rate(p), years_exp |-> None,
                 availability_percent |-> Some(100 - Load(p.assigned)),
                 skill_list |-> Some(skill_list(p))]
      \* ORDER BY rate ASC, availability_percent DESC; a null rate sorts last
      before(a, b) ==
        \/ a.rate # None /\ b.rate = None
        \/ a.rate # None /\ b.rate # None /\ a.rate[1] < b.rate[1]
        \/ a.rate = b.rate /\ a.availability_percent[1] > b.availability_percent[1]
  IN {FirstN(f, prm.limit) : f \in Orderings({row(p) : p \in kept}, before)}

\* the query of simulate_scenario.  A row of (person, skill) is kept for every
\* skill of the person that contains the keyword, and the assignments are
\* matched and summed per such row: current_load counts every assignment once
\* for each matching skill
SimulationRows(g, c, prm) ==
  LET matching(p) == {sk \in p.skills : Contains(LowerStr(sk), LowerStr(prm.skill))}
      by_budget == Contains(c, "p.rate <= $max_budget")
      by_tz == Contains(c, "p.timezone = $timezone")
      by_years == Contains(c, ">= $min_years")
      current_load(p) == Cardinality(matching(p)) * Load(p.assigned)
      kept == {p \in g.people :
                 /\ matching(p) # {}
                 /\ by_budget => (Rate(p) # None /\ Rate(p)[1] <= prm.max_budget)
                 /\ by_tz => p.timezone = Some(prm.timezone)
                 /\ by_years => 0 >= prm.min_years
                 /\ 100 - current_load(p) >= prm.needed}
      row(p) == [name |-> p.name, role |-> p.role, seniority |-> p.seniority,
                 hourly_rate |-> Rate(p), timezone |-> p.timezone, years_exp |-> None,
                 available_capacity_percent |-> Some(100 - current_load(p)),
                 current_load |-> Some(current_load(p))]
      \* ORDER BY p.rate ASC, p.performance_score DESC; no score is set here
      before(a, b) ==
        \/ a.hourly_rate # None /\ b.hourly_rate = None
        \/ a.hourly_rate # None /\ b.hourly_rate # None /\ a.hourly_rate[1] < b.hourly_rate[1]
  IN {FirstN(f, 30) : f \in Orderings({row(p) : p \in kept}, before)}

\* rows a query of another shape may bring back
SampleRows(c) ==
  IF Contains(c, "as result")
  THEN {<<>>, <<[result |-> Some(0)]>>, <<[result |-> Some(3)]>>}
  ELSE IF Contains(c, "AS matched_count")
  THEN {<<>>,
        <<[rfp_title |-> Some("Fintech Platform"), name |-> Some("Ann Lee"),
           role |-> Some("Developer"), rate |-> Some(90), availability_percent |-> Some(50),
           matched |-> Some(<<"python">>), missing |-> Some(<<>>)],
          [rfp_title |-> Some("Fintech Audit"), name |-> Some("Ann Lee"),
           role |-> Some("Developer"), rate |-> Some(90), availability_percent |-> Some(50),
           matched |-> Some(<<"python">>), missing |-> Some(<<"aws">>)]>>}
  ELSE {<<>>,
        <<[name |-> Some("Ann Lee"), role |-> Some("Developer"), rate |-> Some(90),
           availability_percent |-> Some(50)],
          [name |-> Some("Bob Roy"), role |-> Some("Developer"), rate |-> Some(95),
           availability_percent |-> Some(40)]>>}

\* graph.query(cypher, params): the row lists the store may return
QueryRows(g, c, prm) ==
  IF Contains(c, "as risk_level") THEN RiskRows(g, prm)
  ELSE IF Contains(c, "as missing_skills") THEN GapRows(g)
  ELSE IF Contains(c, "RETURN p.name as name, p.role as role, p.seniority as seniority")
  THEN FilterRows(g, c, prm)
  ELSE IF \E col \in {"as person_a", "as focus_person", "as top_performer", "as developer_1"} :
            Contains(c, col)
  THEN ReasoningRows(g, c, prm)
  ELSE IF StartsWith(c, "MATCH (p:Person)\n") /\ Contains(c, "RETURN count(DISTINCT p) as result")
  THEN CountRows(g, c, prm)
  ELSE IF StartsWith(c, "MATCH (p:Person)-[:EARNED]->(c:Certification)\n")
  THEN CertificationRows(g, c, prm)
  ELSE IF Contains(c, "as current_project") \/ Contains(c, "latest_end as available_from")
  THEN TemporalRows(g, c, prm)
  ELSE IF Contains(c, "ORDER BY rate ASC, availability_percent DESC LIMIT $limit")
  THEN TeamOptRows(g, prm)
  ELSE IF Contains(c, "WHERE spare_capacity >= $needed")
  THEN SimulationRows(g, c, prm)
  ELSE SampleRows(c)

(***************************************************************************)
(* classify_query: keyword rules, then the language model                  *)
(***************************************************************************)
\* any(k in q for k in ks)
AnyIn(q, ks) == \E k \in ks : Contains(q, k)

RECURSIVE upper(_)
upper(s) == IF s = "" THEN "" ELSE Upper(SubSeq(s, 1, 1)) \o upper(SubSeq(s, 2, Len(s)))

\* the heuristics of classify_query, in their order; None when none applies
classify_query_rules(qn) ==
  LET q == Strip(LowerStr(qn))
  IN IF AnyIn(q, {"how many", "count ", "count(", "number of"}) THEN Some("counting")
     ELSE IF AnyIn(q, {"average", "avg", "total ", "sum", "stats", "distribution"})
     THEN Some("aggregation")
     ELSE IF AnyIn(q, {"worked together", "worked with", "same university", "relationship",
                       "network"})
     THEN Some("reasoning")
     ELSE IF AnyIn(q, {"available", "availability", "next month", "this month", "q1", "q2",
                       "q3", "q4", "after", "becomes available", "end date"})
     THEN Some("temporal")
     ELSE IF AnyIn(q, {"optimal team", "suggest a team", "suggest an optimal team", "what if",
                       "simulate", "gap analysis", "skills gaps", "risk assessment",
                       "single points of failure"})
     THEN Some("scenario")
     ELSE IF AnyIn(q, {"find ", "list ", "show ", "who knows", "developers with",
                       "engineers with"})
     THEN Some("filtering")
     ELSE None

\* reply is the content of the model's response, None when the call raises
classify_query(qn, reply) ==
  LET ruled == classify_query_rules(qn)
      cat == IF reply = None THEN "" ELSE upper(Strip(reply[1]))
  IN IF ruled # None THEN ruled[1]
     ELSE IF reply = None THEN "scenario"
     ELSE IF Contains(cat, "COUNTING") THEN "counting"
     ELSE IF Contains(cat, "FILTERING") THEN "filtering"
     ELSE IF Contains(cat, "AGGREGATION") THEN "aggregation"
     ELSE IF Contains(cat, "REASONING") THEN "reasoning"
     ELSE IF Contains(cat, "TEMPORAL") THEN "temporal"
     ELSE "scenario"

\* what the language model may answer to the classification prompt
Replies ==
  {None, Some(""), Some("FILTERING"), Some(" Temporal "), Some("I think this is counting."),
   Some("RANKING")}

(***************************************************************************)
(* generate_natural_answer and _fallback_summary.  The data is a list of   *)
(* rows; a row is None or Some(dict), a dict the list of its <<key, value>> *)
(* pairs in insertion order, a value a record tagged with its type.  The   *)
(* empty list stands for each of None, {} and [].                          *)
(***************************************************************************)
Text(v) == [t |-> "str", v |-> v]
Number(v) == [t |-> "int", v |-> v]
Null == [t |-> "none", v |-> ""]
\* a value json.dumps has no encoding for and _serialize_for_json lets through
Point(v) == [t |-> "point", v |-> v]

\* str(v)
str(v) == IF v.t = "int" THEN IntToStr(v.v) ELSE IF v.t = "none" THEN "None" ELSE v.v

\* bool(v)
Truthy(v) == ~(v.t = "none" \/ (v.t = "str" /\ v.v = "") \/ (v.t = "int" /\ v.v = 0))

\* row.get(k)
get(row, k) ==
  IF \E i \in DOMAIN row : row[i][1] = k
  THEN row[CHOOSE i \in DOMAIN row : row[i][1] = k][2]
  ELSE Null

NO_RECORDS == "I searched the Knowledge Graph but found no matching records."

RECURSIVE RowLines(_)
RowLines(data) ==
  IF data = <<>> THEN <<>>
  ELSE LET row == Head(data)
       IN IF row = None THEN RowLines(Tail(data))
          ELSE LET r == row[1]
                   company == IF Truthy(get(r, "shared_company"))
                              THEN get(r, "shared_company") ELSE get(r, "company")
                   sentence == str(get(r, "focus_person")) \o " worked with "
                                 \o str(get(r, "collaborator"))
                                 \o (IF Truthy(company) THEN " at " \o str(company) ELSE "")
                   parts == [i \in DOMAIN r |-> r[i][1] \o ": " \o str(r[i][2])]
                   line == IF (\E i \in DOMAIN r : r[i][1] = "focus_person")
                              /\ (\E i \in DOMAIN r : r[i][1] = "collaborator")
                           THEN "- " \o sentence
                           ELSE "- " \o Join(parts, "; ")
               IN <<line>> \o RowLines(Tail(data))

_fallback_summary(data) ==
  IF data = <<>> THEN NO_RECORDS
  ELSE LET shown == RowLines(FirstN(data, 20))
           lines == (IF shown = <<>> THEN <<"- No readable rows.">> ELSE shown)
                      \o (IF Len(data) > 20 THEN <<"...additional rows omitted.">> ELSE <<>>)
       IN "Results:\n" \o Join(lines, "\n")

\* json.dumps(self._serialize_for_json(data)) has an encoding for every value
Serialisable(data) ==
  \A i \in DOMAIN data : data[i] = None \/ \A j \in DOMAIN data[i][1] : data[i][1][j][2].t # "point"

\* the model's content returned as it came whenever it is not the empty string
generate_natural_answer_untrimmed(qn, data, outcome) ==
  IF data = <<>> THEN [answer |-> Some(NO_RECORDS), raised |-> FALSE, llm_calls |-> 0]
  ELSE LET fallback == _fallback_summary(data)
       IN IF ~Serialisable(data) THEN [answer |-> None, raised |-> TRUE, llm_calls |-> 0]
          ELSE IF outcome = None
          THEN [answer |-> Some(fallback), raised |-> FALSE, llm_calls |-> 1]
          ELSE [answer |-> Some(IF outcome[1] # "" THEN outcome[1] ELSE fallback),
                raised |-> FALSE, llm_calls |-> 1]

\* outcome: None when llm_creative.invoke raises, else Some(the response's content)
generate_natural_answer(qn, data, outcome) ==
  IF data = <<>> THEN [answer |-> Some(NO_RECORDS), raised |-> FALSE, llm_calls |-> 0]
  ELSE LET fallback == _fallback_summary(data)
       IN IF ~Serialisable(data) THEN [answer |-> None, raised |-> TRUE, llm_calls |-> 0]
          ELSE IF outcome = None
          THEN [answer |-> Some(fallback), raised |-> FALSE, llm_calls |-> 1]
          ELSE LET llm_answer == Strip(outcome[1])
               IN [answer |-> Some(IF llm_answer # "" THEN llm_answer ELSE fallback),
                   raised |-> FALSE, llm_calls |-> 1]

\* a call of generate_natural_answer that has not been made yet
Unsummarised(data) ==
  [data |-> data, outcome |-> None, answer |-> None, raised |-> FALSE, llm_calls |-> 0,
   returned |-> FALSE]

\* what invoke may do: raise, or answer with some content
Completions ==
  {None, Some(""), Some("   "), Some(" Ann Lee worked with Bob Roy. "), Some("Two people.")}

(***************************************************************************)
(* answer_question, one action per step of the call                        *)
(***************************************************************************)
\* the text reads "I can't" with a typographic apostrophe
Failure(error) ==
  [success |-> FALSE, error |-> error, natural_answer |-> "I can't confirm from the graph."]

Questions ==
  {"How many Python developers are available?",
   "How many projects are active?",
   "List senior Python developers",
   "Show AWS developers in the Pacific timezone",
   "Who is available in Q1?",
   "Which developers are free in Q3?",
   "Who becomes available next month?",
   "What are the skills gaps for upcoming projects?",
   "Identify single points of failure",
   "Build an optimal team for the fintech RFP",
   "Optimal team of 3 people within budget 80",
   "Who worked with Jacob Young?",
   "Average rate of Python developers",
   "Who knows Rust?"}

\* str(e) of what graph.query may raise
StoreErrors == {"ServiceUnavailable", "Query timed out", ""}

\* what the language model's reply parses to: nothing, or a plan
LLMOutcomes ==
  {None,
   Some(QueryPlan("ranking")),
   Some([QueryPlan("filtering") EXCEPT !.skills = <<"Rust">>]),
   Some([QueryPlan("scenario") EXCEPT !.scenario.kind = Some("gap")])}

\* the locals of a call of answer_question that has not taken a step yet
Waiting(qn) ==
  [pc |-> "start", question |-> qn, plan |-> None, cypher |-> None, params |-> <<>>,
   verdict |-> None, rows |-> <<>>, result |-> None, nqueries |-> 0, exc |-> None]

\* a question arrives
Ask ==
  /\ pc \in {"idle", "done"}
  /\ \E qn \in Questions : question' = qn
  /\ pc' = "start"
  /\ plan' = None /\ cypher' = None /\ params' = <<>> /\ verdict' = None
  /\ rows' = <<>> /\ result' = None /\ nqueries' = 0
  /\ category' = None /\ exc' = None
  /\ UNCHANGED <<today, graph, other, summary>>
  /\ UNCHANGED service

Plan ==
  /\ pc = "start"
  /\ \E lm \in LLMOutcomes : plan' = plan_question(question, lm)
  /\ IF plan' = None
     THEN pc' = "done" /\ result' = Some(Failure("Could not build plan"))
     ELSE pc' = "planned" /\ UNCHANGED result
  /\ UNCHANGED <<question, today, cypher, params, verdict, graph, rows, nqueries, other, category, summary, exc>>
  /\ UNCHANGED service

\* the compiled query kept in a field of the engine: a call that compiles
\* replaces the query another call has compiled and not yet sent
CompileOnEngine ==
  /\ pc = "planned"
  /\ LET built == _build_cypher_from_plan(plan[1], today)
     IN /\ cypher' = built.cypher
        /\ params' = built.params
        /\ other' = IF other.pc \in {"compiled", "validated"}
                    THEN [other EXCEPT !.cypher = built.cypher, !.params = built.params]
                    ELSE other
        /\ IF ~TruthyStr(built.cypher)
           THEN pc' = "done" /\ result' = Some(Failure("Unsupported query type"))
           ELSE pc' = "compiled" /\ UNCHANGED result
  /\ UNCHANGED <<question, today, plan, verdict, graph, rows, nqueries, category, summary, exc>>
  /\ UNCHANGED service

Compile ==
  /\ pc = "planned"
  /\ LET built == _build_cypher_from_plan(plan[1], today)
     IN /\ cypher' = built.cypher
        /\ params' = built.params
        /\ IF ~TruthyStr(built.cypher)
           THEN pc' = "done" /\ result' = Some(Failure("Unsupported query type"))
           ELSE pc' = "compiled" /\ UNCHANGED result
  /\ UNCHANGED <<question, today, plan, verdict, graph, rows, nqueries, other, category, summary, exc>>
  /\ UNCHANGED service

Validate ==
  /\ pc = "compiled"
  /\ verdict' = Some(_is_safe_cypher(cypher))
  /\ IF verdict' = Some(FALSE)
     THEN pc' = "done" /\ result' = Some(Failure("Blocked unsafe Cypher"))
     ELSE pc' = "validated" /\ UNCHANGED result
  /\ UNCHANGED <<question, today, plan, cypher, params, graph, rows, nqueries, other, category, summary, exc>>
  /\ UNCHANGED service

\* the query sent without waiting for the validator
ExecuteUnvalidated ==
  /\ pc \in {"compiled", "validated"}
  /\ nqueries' = nqueries + 1
  /\ pc' = "executed"
  /\ \E rs \in QueryRows(graph, cypher[1], params) : rows' = rs
  /\ UNCHANGED <<question, today, plan, cypher, params, verdict, graph, result, other, category, summary, exc>>
  /\ UNCHANGED service

\* a failed query sent once more before giving up
ExecuteWithRetry ==
  /\ pc = "validated" /\ nqueries < 2
  /\ nqueries' = nqueries + 1
  /\ \/ /\ \E e \in StoreErrors :
             /\ exc' = Some(e)
             /\ IF nqueries = 0
                THEN pc' = "validated" /\ UNCHANGED result
                ELSE pc' = "done" /\ result' = Some(Failure(e))
        /\ UNCHANGED rows
     \/ /\ pc' = "executed"
        /\ \E rs \in QueryRows(graph, cypher[1], params) : rows' = rs
        /\ UNCHANGED <<result, exc>>
  /\ UNCHANGED <<question, today, plan, cypher, params, verdict, graph, other, category, summary>>
  /\ UNCHANGED service

\* graph.query raises (the store is unreachable, the query fails) or returns rows
Execute ==
  /\ pc = "validated"
  /\ nqueries' = nqueries + 1
  /\ \/ /\ pc' = "done"
        /\ \E e \in StoreErrors : exc' = Some(e) /\ result' = Some(Failure(e))
        /\ UNCHANGED rows
     \/ /\ pc' = "executed"
        /\ \E rs \in QueryRows(graph, cypher[1], params) : rows' = rs
        /\ UNCHANGED <<result, exc>>
  /\ UNCHANGED <<question, today, plan, cypher, params, verdict, graph, other, category, summary>>
  /\ UNCHANGED service

\* a last step that reports an empty result as a failure
FormatFoundOnly ==
  /\ pc = "executed"
  /\ pc' = "done"
  /\ LET natural_answer == _format_answer(plan[1], rows)
     IN result' = IF rows = <<>>
                  THEN Some(Failure("No rows"))
                  ELSE IF natural_answer.raised
                  THEN Some([raised |-> TRUE])
                  ELSE Some([success |-> TRUE, result |-> rows,
                             natural_answer |-> natural_answer, plan |-> plan[1],
                             cypher |-> cypher[1], params |-> params])
  /\ UNCHANGED <<question, today, plan, cypher, params, verdict, graph, rows, nqueries, other, category, summary, exc>>
  /\ UNCHANGED service

\* a formatter that raises leaves answer_question by the exception
Format ==
  /\ pc = "executed"
  /\ pc' = "done"
  /\ LET natural_answer == _format_answer(plan[1], rows)
     IN result' = IF natural_answer.raised
                  THEN Some([raised |-> TRUE])
                  ELSE Some([success |-> TRUE, result |-> rows,
                             natural_answer |-> natural_answer, plan |-> plan[1],
                             cypher |-> cypher[1], params |-> params])
  /\ UNCHANGED <<question, today, plan, cypher, params, verdict, graph, rows, nqueries, other, category, summary, exc>>
  /\ UNCHANGED service

\* classify_query called on the question being served
Classify ==
  /\ category = None /\ pc # "idle"
  /\ \E reply \in Replies : category' = Some(classify_query(question, reply))
  /\ UNCHANGED <<pc, question, today, plan, cypher, params, verdict, graph, rows, result,
                 nqueries, other, summary, exc>>
  /\ UNCHANGED service

\* generate_natural_answer(question, data), the model answering as it may;
\* outcome records what invoke did, or None when it was not called
Summarise ==
  /\ ~summary.returned
  /\ \E outcome \in Completions :
       LET got == generate_natural_answer(question, summary.data, outcome)
       IN summary' = [data |-> summary.data,
                      outcome |-> IF got.llm_calls = 0 THEN None ELSE Some(outcome),
                      answer |-> got.answer, raised |-> got.raised,
                      llm_calls |-> got.llm_calls, returned |-> TRUE]
  /\ UNCHANGED <<pc, question, today, plan, cypher, params, verdict, graph, rows, result,
                 nqueries, other, category, exc>>
  /\ UNCHANGED service

\* the endpoint serves requests on worker threads over the one engine: the
\* running call is suspended and the waiting one resumes where it stood
Switch ==
  /\ other.pc # "done"
  /\ other' = [pc |-> pc, question |-> question, plan |-> plan, cypher |-> cypher,
               params |-> params, verdict |-> verdict, rows |-> rows, result |-> result,
               nqueries |-> nqueries, exc |-> exc]
  /\ pc' = other.pc /\ question' = other.question /\ plan' = other.plan
  /\ cypher' = other.cypher /\ params' = other.params /\ verdict' = other.verdict
  /\ rows' = other.rows /\ result' = other.result /\ nqueries' = other.nqueries
  /\ exc' = other.exc
  /\ UNCHANGED <<today, graph, category, summary>>
  /\ UNCHANGED service

\* the query text and parameters of simulate_scenario
simulate_scenario_query(skill, required_allocation, max_budget, timezone_filter, min_years_exp) ==
  LET filters ==
        (IF TruthyNum(max_budget) THEN <<"p.rate <= $max_budget">> ELSE <<>>)
          \o (IF TruthyStr(timezone_filter) THEN <<"p.timezone = $timezone">> ELSE <<>>)
          \o (IF TruthyNum(min_years_exp)
              THEN <<"coalesce(p.years_experience, p.years_of_experience, 0) >= $min_years">>
              ELSE <<>>)
      filter_clause == IF filters # <<>> THEN " AND " \o Join(filters, " AND ") ELSE ""
  IN [cypher |-> "\n        MATCH (p:Person)-[:HAS_SKILL]->(s:Skill)\n        WHERE (toLower(coalesce(s.id,s.name,'')) CONTAINS toLower($skill)\n               OR toLower(coalesce(s.name,s.id,'')) CONTAINS toLower($skill))\n        "
                 \o filter_clause
                 \o "\n        OPTIONAL MATCH (p)-[r:ASSIGNED_TO]->(:Project)\n         WITH p, sum(coalesce(r.allocation_percentage, coalesce(r.allocation,0.0))) as current_load\n        WITH p, current_load, (1.0 - current_load) as spare_capacity\n        WHERE spare_capacity >= $needed\n        RETURN \n            p.name as name,\n            p.role as role,\n            p.seniority as seniority,\n            p.rate as hourly_rate,\n            p.timezone as timezone,\n            coalesce(p.years_experience, p.years_of_experience) as years_exp,\n            round(spare_capacity * 100, 0) as available_capacity_percent,\n            current_load\n        ORDER BY p.rate ASC, p.performance_score DESC\n        LIMIT 30\n        ",
      params |-> [skill |-> skill, needed |-> required_allocation]
                   @@ (IF TruthyNum(max_budget) THEN [max_budget |-> max_budget[1]] ELSE <<>>)
                   @@ (IF TruthyStr(timezone_filter) THEN [timezone |-> timezone_filter[1]] ELSE <<>>)
                   @@ (IF TruthyNum(min_years_exp) THEN [min_years |-> min_years_exp[1]] ELSE <<>>)]

\* simulate_scenario called with a skill keyword, an allocation in percent, and
\* a budget and a timezone or none: one graph.query, its rows or its error returned
Simulate ==
  /\ pc = "idle"
  /\ \E skill \in {"Java", "Python"}, required_allocation \in {100, 50, 30},
        max_budget \in {None, Some(90)}, timezone_filter \in {None, Some("PT")} :
       LET built == simulate_scenario_query(skill, required_allocation, max_budget,
                                            timezone_filter, None)
       IN /\ cypher' = Some(built.cypher)
          /\ params' = built.params
          /\ nqueries' = nqueries + 1
          /\ \/ \E res \in QueryRows(graph, built.cypher, built.params) :
                  /\ rows' = res
                  /\ result' = Some([type |-> "scenario", simulation_mode |-> TRUE,
                                     matching_candidates |-> res,
                                     candidate_count |-> Len(res),
                                     cypher |-> built.cypher, success |-> TRUE])
                  /\ exc' = None
             \/ \E e \in StoreErrors :
                  /\ exc' = Some(e)
                  /\ result' = Some([success |-> FALSE, error |-> e])
                  /\ UNCHANGED rows
  /\ pc' = "done"
  /\ UNCHANGED <<question, today, plan, verdict, graph, other, category, summary>>
  /\ UNCHANGED service

(***************************************************************************)
(* Bounds and the inputs drawn within them                                 *)
(***************************************************************************)
NumYears == 2
MaxPeople == 2
MaxRows == 7
MaxAlumni == 3
MaxData == 2

Days ==
  {Date(y, m, d) : y \in 2024..(2023 + NumYears), m \in 1..12, d \in 1..31} \
    {dt \in [year : 2024..(2023 + NumYears), month : 1..12, day : 29..31] :
       dt.day > DaysInMonth(dt.year, dt.month)}

Dates == {Date(2025, 12, 15), Date(2025, 2, 10), Date(2024, 8, 31)}

Assignment(title, allocation, end_date) ==
  [title |-> Some(title), allocation |-> allocation, end_date |-> end_date]

Workloads ==
  {<<>>,
   <<Assignment("Apollo", 20, None)>>,
   <<Assignment("Apollo", 49, Some("2025-12-31"))>>,
   <<Assignment("Apollo", 50, None)>>,
   <<Assignment("Apollo", 60, Some("2026-03-31"))>>,
   <<Assignment("Apollo", 89, None)>>,
   <<Assignment("Apollo", 40, None), Assignment("Borealis", 50, Some("2025-12-31"))>>,
   <<Assignment("Apollo", 95, None)>>,
   <<Assignment("Apollo", 60, None), Assignment("Borealis", 60, Some("2026-03-31"))>>}

Person(name, role, seniority, timezone, skills, assigned) ==
  [name |-> Some(name), role |-> Some(role), seniority |-> seniority,
   timezone |-> timezone, skills |-> skills, assigned |-> assigned]

\* the people a snapshot may hold, by name
Staff ==
  <<{Person("Ann Lee", "Developer", Some("Senior"), Some("PT"), {"Python", "Security"}, w) :
       w \in Workloads},
    {Person("Bob Roy", "Architect", None, None, {"python", "AWS"}, <<>>),
     Person("Bob Roy", "Architect", None, None, {"AWS", ""},
            <<Assignment("Borealis", 100, None)>>),
     Person("Bob Roy", "Architect", None, None, {},
            <<Assignment("Borealis", 50, None)>>)},
    {Person("Cy Day", "Developer", Some("Senior Lead"), Some("PT"), {" AWS "},
            <<Assignment("Apollo", 100, Some("2026-03-31"))>>),
     Person("Cy Day", "Developer", Some("Junior"), Some("ET"), {"Security"},
            <<Assignment("Apollo", 90, None)>>)}>>

Opt(S) == {None} \cup {Some(x) : x \in S}
Members(o) == IF o = None THEN {} ELSE {o[1]}

Graphs ==
  {g \in {[people |-> Members(a) \cup Members(b) \cup Members(c), required |-> rq] :
            a \in Opt(Staff[1]), b \in Opt(Staff[2]), c \in Opt(Staff[3]),
            rq \in {{}, {"Python", "AWS", "Security"}}} :
     Cardinality(g.people) <= MaxPeople}

SampleGraphs ==
  {[people |-> {}, required |-> {}],
   [people |-> {Person("Ann Lee", "Developer", Some("Senior"), Some("PT"), {"Python"},
                       <<Assignment("Apollo", 100, Some("2025-12-31"))>>),
                Person("Bob Roy", "Architect", None, None, {"python", "AWS"}, <<>>)},
    required |-> {"Python", "AWS", "Security"}]}

\* questions put by two clients at the same time
TwoQuestions ==
  {"How many Python developers are available?",
   "Who is available in Q1?",
   "Identify single points of failure",
   "Who knows Rust?"}

\* questions put together from an opening and a tail, each with the keywords
\* of some category or of none
MixedQuestions ==
  {opening \o tail :
     opening \in {"How many developers", "Average rate of developers", "List developers",
                  "Suggest an optimal team of developers", "Developers"},
     tail \in {"", " available next month", " who worked with Ann Lee", " with a skills gap"}}

\* "how many" questions naming one skill and asking who is available
CountQuestions ==
  {"How many " \o who \o " are available" \o tail :
     who \in {"Python developers", "AWS engineers", "certified AWS developers",
              "developers on Security projects"},
     tail \in {"?", " after March?"}}

CertificationQuestions ==
  {"How many certified people are there?",
   "How many certified people are available?",
   "How many certified AWS developers are available?",
   "How many people hold Kubernetes certifications?"}

\* a person with the certifications they earned
Holder(person, earned) == person @@ [earned |-> earned]

CertificationGraphs ==
  {[people |-> ps, required |-> {}] :
     ps \in SUBSET {Holder(Person("Ann Lee", "Developer", None, None, {"Python"}, <<>>),
                           {"AWS Certified Developer"}),
                    Holder(Person("Bob Roy", "Architect", None, None, {"AWS"},
                                  <<Assignment("Apollo", 100, None)>>),
                           {"AWS Solutions Architect", "CKA Kubernetes Administrator"}),
                    Person("Cy Day", "Developer", None, None, {"AWS", "Kubernetes"}, <<>>),
                    Person("Di Fox", "Tester", None, None, {},
                           <<Assignment("Apollo", 50, None)>>)}}

DataRows ==
  {None,
   Some(<<>>),
   Some(<<<<"focus_person", Text("Ann Lee")>>, <<"collaborator", Text("Bob Roy")>>,
          <<"shared_company", Text("Acme")>>>>),
   Some(<<<<"focus_person", Text("Ann Lee")>>, <<"collaborator", Text("Cy Day")>>,
          <<"shared_company", Null>>, <<"company", Text("Bolt")>>>>),
   Some(<<<<"collaborator", Text("Bob Roy")>>, <<"focus_person", Null>>>>),
   Some(<<<<"name", Text("Ann Lee")>>, <<"rate", Number(90)>>, <<"seniority", Null>>>>),
   Some(<<<<"result", Number(0)>>>>),
   Some(<<<<"name", Text("Bob Roy")>>, <<"location", Point("POINT(1.0 2.0)")>>>>)}

RECURSIVE Lists(_, _)
Lists(S, n) ==
  IF n = 0 THEN {<<>>} ELSE Lists(S, n - 1) \cup {<<x>> \o l : x \in S, l \in {m \in Lists(S, n - 1) : Len(m) = n - 1}}

SummaryData ==
  Lists(DataRows, MaxData)
    \cup {[i \in 1..21 |-> Some(<<<<"result", Number(i)>>>>)],
          [i \in 1..21 |-> IF i <= 20 THEN None ELSE Some(<<<<"result", Number(i)>>>>)]}

Colleague(name, role, worked_at, studied_at, performance_score) ==
  [name |-> name, role |-> Some(role), seniority |-> None, timezone |-> None,
   skills |-> {}, assigned |-> <<>>, worked_at |-> worked_at, studied_at |-> studied_at,
   performance_score |-> performance_score]

\* people with a past: the third may bear the first one's name, or none
Alumni ==
  <<{Colleague(Some("Ann Lee"), "Developer", w, u, sc) :
       w \in {{"Acme"}, {"Acme", "Bolt"}}, u \in {{}, {"MIT"}}, sc \in {None, Some(80)}},
    {Colleague(Some("Bob Roy"), "Architect", w, {"MIT"}, sc) :
       w \in {{}, {"Acme", "Bolt"}}, sc \in {Some(70), Some(90)}},
    {Colleague(Some("Ann Lee"), "Tester", {"Acme"}, {"MIT", "ETH"}, Some(85)),
     Colleague(Some("Cy Day"), "Tester", {"Bolt"}, {"MIT"}, Some(75)),
     Colleague(None, "Tester", {"Acme", "Bolt"}, {"MIT"}, Some(90))}>>

ReasoningGraphs ==
  {g \in {[people |-> Members(a) \cup Members(b) \cup Members(c), required |-> {}] :
            a \in Opt(Alumni[1]), b \in Opt(Alumni[2]), c \in Opt(Alumni[3])} :
     Cardinality(g.people) <= MaxAlumni}

ReasoningPlans ==
  {[QueryPlan("reasoning") EXCEPT !.reasoning.kind = Some(f[1]), !.reasoning.focus_person = f[2]] :
     f \in {<<"collab", None>>, <<"collab", Some("Ann Lee")>>, <<"collab_success", None>>,
            <<"uni_top", None>>, <<"uni_pair", None>>}}

\* plans whose queries the graph snapshots are asked
GraphPlans ==
  {[QueryPlan("filtering") EXCEPT !.skills = f[1], !.seniority = f[2],
                                  !.availability.type = Some(f[3])] :
     f \in {<<<<>>, None, "none">>, <<<<"Python">>, Some("senior"), "none">>,
            <<<<"Python">>, None, "now">>, <<<<>>, None, "next_month">>}}
  \cup {[QueryPlan("scenario") EXCEPT !.scenario.kind = Some(k)] : k \in {"risk", "gap"}}

\* plans that ask for a window
WindowPlans ==
  {[QueryPlan(qt) EXCEPT !.availability.type = Some(a)] :
     qt \in {"counting", "filtering", "temporal"},
     a \in {"this_month", "next_month", "quarter"}}

\* query strings put to the validator: a lead, a first clause, a rest
RECURSIVE UpperStr(_)
UpperStr(s) == IF s = "" THEN "" ELSE Upper(SubSeq(s, 1, 1)) \o UpperStr(SubSeq(s, 2, Len(s)))

Keywords ==
  {"create", "merge", "set", "delete", "detach", "drop", "remove", "call", "load csv",
   "apoc.", "gds.", "periodic", "foreach", "dbms", "admin", "schema"}

QueryStrings ==
  {lead \o first \o rest :
     lead \in {"", " \n\t"},
     first \in {"MATCH (n) ", "match (n) ", "With 1 AS n ", "RETURN 1 AS m, ",
                "OPTIONAL MATCH (n) ", "Optional Match (n) ", "UNWIND [1] AS n ",
                "EXPLAIN MATCH (n) ", "SHOW INDEXES ", ""},
     rest \in {"RETURN n"} \cup
              UNION {{k \o " n RETURN n", UpperStr(k) \o " n RETURN n",
                      Title(k) \o " n RETURN n"} : k \in Keywords}}

\* candidate rows of a team_opt answer: the i-th row is a new person in a new
\* role, a name seen before in a new role, or a new person in the first role
Names ==
  <<"Ann Lee", "Bob Roy", "Cy Day", "Di Fox", "Ed Gil", "Flo Hay", "Gus Ito", "Hal Jay",
    "Ida Kim">>

Roles ==
  <<"Developer", "Architect", "Tester", "Analyst", "Manager", "Designer", "Consultant",
    "Engineer", "Scientist">>

TeamRow(i, kind, shape) ==
  LET common ==
        [name |-> Some(Names[IF kind = "again" THEN 1 ELSE i]),
         role |-> Some(Roles[IF kind = "same_role" THEN 1 ELSE i]),
         rate |-> Some(60 + 5 * ((3 * i) % 7)),
         availability_percent |-> Some(100 - 10 * (i % 4))]
  IN IF shape = "rfp"
     THEN common @@ [rfp_title |-> Some("Fintech Platform"),
                     matched |-> Some(SubSeq(<<"python", "aws", "security">>, 1, i % 4)),
                     missing |-> Some(SubSeq(<<"python", "aws", "security">>, (i % 4) + 1, 3))]
     ELSE common @@ [years_exp |-> Some(i), skill_list |-> Some(<<"python">>)]

RowLists(shape) ==
  UNION {{[i \in 1..n |-> TeamRow(i, f[i], shape)] : f \in [1..n -> {"new", "again", "same_role"}]} :
           n \in 0..MaxRows}

TeamPlan(shape) ==
  IF shape = "rfp"
  THEN [QueryPlan("scenario") EXCEPT !.scenario.kind = Some("team_opt"),
                                     !.rfp_keyword = Some("fintech")]
  ELSE [QueryPlan("scenario") EXCEPT !.scenario.kind = Some("team_opt"),
                                     !.skills = <<"Python">>]

(***************************************************************************)
(* Specifications                                                          *)
(***************************************************************************)
\* the engine after construction, serving questions one at a time
Init ==
  /\ pc = "idle" /\ question = ""
  /\ today \in Dates
  /\ graph \in SampleGraphs
  /\ plan = None /\ cypher = None /\ params = <<>> /\ verdict = None
  /\ rows = <<>> /\ result = None /\ nqueries = 0
  /\ other = Waiting("") /\ category = None /\ summary = Unsummarised(<<>>) /\ exc = None /\ service = Constructed

Next == Ask \/ Plan \/ Compile \/ Validate \/ Execute \/ Format

Spec == Init /\ [][Next]_vars

\* the compilers and the validator over the plans a language model may return
InitCompile ==
  /\ pc = "planned" /\ question = "Who knows Rust?"
  /\ today \in {Date(2025, 12, 15), Date(2024, 2, 29)}
  /\ graph \in {[people |-> {}, required |-> {}]}
  /\ plan \in {Some(p) : p \in PlanSpace}
  /\ cypher = None /\ params = <<>> /\ verdict = None
  /\ rows = <<>> /\ result = None /\ nqueries = 0
  /\ other = Waiting("") /\ category = None /\ summary = Unsummarised(<<>>) /\ exc = None /\ service = Constructed

NextCompile == Compile \/ Validate

SpecCompile == InitCompile /\ [][NextCompile]_vars

\* the window computation on every day of the years covered
InitWindow ==
  /\ pc = "planned" /\ question = "Who knows Rust?"
  /\ today \in Days
  /\ graph \in {[people |-> {}, required |-> {}]}
  /\ plan \in {Some(p) : p \in WindowPlans}
  /\ cypher = None /\ params = <<>> /\ verdict = None
  /\ rows = <<>> /\ result = None /\ nqueries = 0
  /\ other = Waiting("") /\ category = None /\ summary = Unsummarised(<<>>) /\ exc = None /\ service = Constructed

NextWindow == Compile

SpecWindow == InitWindow /\ [][NextWindow]_vars

\* the filtering, risk and gap queries over the graph snapshots
InitGraph ==
  /\ pc = "planned" /\ question = "Who knows Rust?"
  /\ today = Date(2025, 12, 15)
  /\ graph \in Graphs
  /\ plan \in {Some(p) : p \in GraphPlans}
  /\ cypher = None /\ params = <<>> /\ verdict = None
  /\ rows = <<>> /\ result = None /\ nqueries = 0
  /\ other = Waiting("") /\ category = None /\ summary = Unsummarised(<<>>) /\ exc = None /\ service = Constructed

NextGraph == Compile \/ Validate \/ Execute \/ Format

SpecGraph == InitGraph /\ [][NextGraph]_vars

\* the reasoning queries over graphs of colleagues and fellow students
InitReasoning ==
  /\ pc = "planned" /\ question = "Who knows Rust?"
  /\ today = Date(2025, 12, 15)
  /\ graph \in ReasoningGraphs
  /\ plan \in {Some(p) : p \in ReasoningPlans}
  /\ cypher = None /\ params = <<>> /\ verdict = None
  /\ rows = <<>> /\ result = None /\ nqueries = 0
  /\ other = Waiting("") /\ category = None /\ summary = Unsummarised(<<>>) /\ exc = None /\ service = Constructed

NextReasoning == Compile \/ Validate \/ Execute \/ Format

SpecReasoning == InitReasoning /\ [][NextReasoning]_vars

\* two requests served at once by the one engine
InitTwo ==
  /\ pc = "start" /\ question \in TwoQuestions
  /\ today \in {Date(2025, 12, 15), Date(2025, 2, 10)}
  /\ graph \in {g \in SampleGraphs : g.people # {}}
  /\ plan = None /\ cypher = None /\ params = <<>> /\ verdict = None
  /\ rows = <<>> /\ result = None /\ nqueries = 0
  /\ \E qn \in TwoQuestions : other = Waiting(qn)
  /\ category = None /\ summary = Unsummarised(<<>>) /\ exc = None /\ service = Constructed

NextTwo == Plan \/ Compile \/ Validate \/ Execute \/ Format \/ Switch

SpecTwo == InitTwo /\ [][NextTwo]_vars

\* every shape of plan asked of a store that holds nothing
InitEmpty ==
  /\ pc = "planned" /\ question = "Who knows Rust?"
  /\ today = Date(2025, 12, 15)
  /\ graph = [people |-> {}, required |-> {}]
  /\ plan \in {Some(p) : p \in PlanSpace}
  /\ cypher = None /\ params = <<>> /\ verdict = None
  /\ rows = <<>> /\ result = None /\ nqueries = 0
  /\ other = Waiting("") /\ category = None /\ summary = Unsummarised(<<>>) /\ exc = None /\ service = Constructed

NextEmpty == Compile \/ Validate \/ Execute \/ Format

SpecEmpty == InitEmpty /\ [][NextEmpty]_vars

\* questions that carry the keywords of one, two or no category, classified
\* and answered
InitClassify ==
  /\ pc = "start" /\ question \in MixedQuestions
  /\ today = Date(2025, 12, 15)
  /\ graph = [people |-> {}, required |-> {}]
  /\ plan = None /\ cypher = None /\ params = <<>> /\ verdict = None
  /\ rows = <<>> /\ result = None /\ nqueries = 0
  /\ other = Waiting("") /\ category = None /\ summary = Unsummarised(<<>>) /\ exc = None /\ service = Constructed

NextClassify == Classify \/ Plan \/ Compile

SpecClassify == InitClassify /\ [][NextClassify]_vars

\* result lists of up to MaxData rows, and one too long to be shown whole,
\* put into words
InitSummary ==
  /\ pc = "idle" /\ question = "Who worked with Ann Lee?"
  /\ today = Date(2025, 12, 15)
  /\ graph = [people |-> {}, required |-> {}]
  /\ plan = None /\ cypher = None /\ params = <<>> /\ verdict = None
  /\ rows = <<>> /\ result = None /\ nqueries = 0
  /\ other = Waiting("") /\ category = None
  /\ \E data \in SummaryData : summary = Unsummarised(data)
  /\ exc = None /\ service = Constructed

NextSummary == Summarise

SpecSummary == InitSummary /\ [][NextSummary]_vars

\* head counts asked of graphs of people with loads
InitCount ==
  /\ pc = "start" /\ question \in CountQuestions
  /\ today = Date(2025, 12, 15)
  /\ graph \in {g \in Graphs : g.required = {}}
  /\ plan = None /\ cypher = None /\ params = <<>> /\ verdict = None
  /\ rows = <<>> /\ result = None /\ nqueries = 0
  /\ other = Waiting("") /\ category = None /\ summary = Unsummarised(<<>>) /\ exc = None /\ service = Constructed

NextCount == Plan \/ Compile \/ Validate \/ Execute \/ Format

SpecCount == InitCount /\ [][NextCount]_vars

\* questions about certified people asked of graphs where some hold a
\* certification and some do not
InitCertified ==
  /\ pc = "start" /\ question \in CertificationQuestions
  /\ today = Date(2025, 12, 15)
  /\ graph \in CertificationGraphs
  /\ plan = None /\ cypher = None /\ params = <<>> /\ verdict = None
  /\ rows = <<>> /\ result = None /\ nqueries = 0
  /\ other = Waiting("") /\ category = None /\ summary = Unsummarised(<<>>) /\ exc = None /\ service = Constructed

NextCertified == Plan \/ Compile \/ Validate \/ Execute \/ Format

SpecCertified == InitCertified /\ [][NextCertified]_vars

\* the validator over query strings of every start and keyword
InitSafe ==
  /\ pc = "compiled" /\ question = ""
  /\ today = Date(2025, 12, 15)
  /\ graph \in {[people |-> {}, required |-> {}]}
  /\ plan = None
  /\ cypher \in {None, Some(""), Some(" \n")} \cup {Some(c) : c \in QueryStrings}
  /\ params = <<>> /\ verdict = None
  /\ rows = <<>> /\ result = None /\ nqueries = 0
  /\ other = Waiting("") /\ category = None /\ summary = Unsummarised(<<>>) /\ exc = None /\ service = Constructed

NextSafe == Validate

SpecSafe == InitSafe /\ [][NextSafe]_vars

\* the formatter over the rows returned for a team_opt plan
InitTeam ==
  /\ pc = "executed" /\ question = "Who knows Rust?"
  /\ today = Date(2025, 12, 15)
  /\ graph \in {[people |-> {}, required |-> {}]}
  /\ \E shape \in {"rfp", "generic"} :
       /\ plan = Some(TeamPlan(shape))
       /\ cypher = _build_cypher_from_plan(TeamPlan(shape), today).cypher
       /\ params = _build_cypher_from_plan(TeamPlan(shape), today).params
       /\ rows \in RowLists(shape)
  /\ verdict = Some(TRUE)
  /\ result = None /\ nqueries = 1
  /\ other = Waiting("") /\ category = None /\ summary = Unsummarised(<<>>) /\ exc = None /\ service = Constructed

NextTeam == Format

SpecTeam == InitTeam /\ [][NextTeam]_vars

(***************************************************************************)
(* Properties                                                              *)
(***************************************************************************)
\* C1: the graph store is queried only after planning returned a plan,
\* compilation returned a query and the validator accepted it; when one of
\* the three fails the call returns success=false with the matching error and
\* the store is never queried for that question.
C1_QueryOnlyAfterAcceptance ==
  /\ [](nqueries > 0 => plan # None /\ TruthyStr(cypher) /\ verdict = Some(TRUE))
  /\ [][nqueries' > nqueries =>
          pc = "validated" /\ plan # None /\ TruthyStr(cypher) /\ verdict = Some(TRUE)]_vars
  /\ [](pc = "done" /\ plan = None =>
          result = Some(Failure("Could not build plan")) /\ nqueries = 0)
  /\ [](pc = "done" /\ plan # None /\ ~TruthyStr(cypher) =>
          result = Some(Failure("Unsupported query type")) /\ nqueries = 0)
  /\ [](pc = "done" /\ verdict = Some(FALSE) =>
          result = Some(Failure("Blocked unsafe Cypher")) /\ nqueries = 0)

C1_Witness_Queried ==
  /\ pc = "executed" /\ nqueries = 1 /\ verdict = Some(TRUE)
  /\ question = "Who knows Rust?"

\* C2: the gating validator rejects every query string that contains, in any
\* letter case, a keyword of the blocklist create, merge, set, delete, detach,
\* drop, remove, call, load csv, apoc./gds. prefixes, periodic, foreach, dbms,
\* admin, schema.
C2_BlocklistRejects ==
  (pc # "compiled" /\ cypher # None
     /\ \E k \in Keywords : Contains(LowerStr(cypher[1]), k))
    => verdict = Some(FALSE)

BeginsWith(c, starts) ==
  \E k \in starts : StartsWith(LowerStr(Strip(c)), k)

C4_CompiledQueriesAccepted ==
  /\ pc # "done"
  /\ pc = "compiled" => TruthyStr(cypher)
  /\ verdict # Some(FALSE)

C4_Witness_TeamRfpAccepted ==
  /\ pc = "validated" /\ verdict = Some(TRUE)
  /\ plan[1].scenario.kind = Some("team_opt") /\ plan[1].rfp_keyword = Some("fintech")

Filters(p, kind) ==
  /\ p.query_type = "filtering"
  /\ p.availability.type = Some(kind)

\* the person meets the plan's skill, seniority and timezone filters
MeetsFilters(person, p) ==
  /\ \A i \in DOMAIN p.skills :
       \E sk \in person.skills : Contains(LowerStr(sk), LowerStr(p.skills[i]))
  /\ p.seniority # None =>
       person.seniority # None /\ Contains(LowerStr(person.seniority[1]), LowerStr(p.seniority[1]))
  /\ p.timezone # None => person.timezone = p.timezone

\* C5: when the plan's availability type is "none" the filtering query has no
\* spare-capacity condition: every person with load >= 1.0 who meets the skill,
\* seniority and timezone filters is among the rows returned.
C5_NoCapacityFilterWhenNone ==
  (pc = "executed" /\ Filters(plan[1], "none")) =>
    \A person \in graph.people :
      (Load(person.assigned) >= 100 /\ MeetsFilters(person, plan[1])) =>
        \E i \in DOMAIN rows : rows[i].name = person.name

FollowingMonth(td) ==
  IF td.month = 12 THEN [year |-> td.year + 1, month |-> 1]
  ELSE [year |-> td.year, month |-> td.month + 1]

MonthWindow(y, m) ==
  [start |-> isoformat(Date(y, m, 1)), end |-> isoformat(Date(y, m, DaysInMonth(y, m)))]

Bound(prm) ==
  IF "start" \in DOMAIN prm /\ "end" \in DOMAIN prm
  THEN Some([start |-> prm.start, end |-> prm.end]) ELSE None

\* C6: for availability type next_month the window bound into the query is the
\* first and last day of the month after the evaluation date, the year rolling
\* over after December (on 2025-12-15: 2026-01-01 to 2026-01-31); for this_month
\* it is the first and last day of the evaluation date's month.
C6_MonthWindows ==
  pc = "compiled" =>
    /\ plan[1].availability.type = Some("next_month") =>
         Bound(params) = Some(MonthWindow(FollowingMonth(today).year, FollowingMonth(today).month))
    /\ plan[1].availability.type = Some("this_month") =>
         Bound(params) = Some(MonthWindow(today.year, today.month))
    /\ (plan[1].availability.type = Some("next_month") /\ today = Date(2025, 12, 15)) =>
         Bound(params) = Some([start |-> "2026-01-01", end |-> "2026-01-31"])

C6_Witness_DecemberRollover ==
  /\ pc = "compiled" /\ today = Date(2025, 12, 15)
  /\ plan[1].availability.type = Some("next_month")
  /\ Bound(params) = Some([start |-> "2026-01-01", end |-> "2026-01-31"])

\* the quarters a question names
NamedQuarters(qn) == {n \in 1..4 : Contains(LowerStr(qn), "q" \o Digit(n))}

\* C7: for a question naming quarter Qn the window bound into the compiled
\* query is the first day of month 3(n-1)+1 to the last day of month 3(n-1)+3 of
\* the evaluation year, whatever the month of evaluation.
C7_NamedQuarterWindow ==
  (pc \in {"compiled", "validated", "executed"} /\ NamedQuarters(question) # {}) =>
    \E n \in NamedQuarters(question) :
      Bound(params) =
        Some([start |-> MonthWindow(today.year, 3 * (n - 1) + 1).start,
              end |-> MonthWindow(today.year, 3 * (n - 1) + 3).end])

IsScenario(p, kind) == p.query_type = "scenario" /\ p.scenario.kind = Some(kind)

\* the people holding a skill, skills compared trimmed and in lower case
Holders(g, skill) ==
  {person \in g.people : \E sk \in person.skills : LowerStr(Strip(sk)) = skill}

\* C8: in the risk scenario every returned skill is held by exactly one person
\* and is classified from that owner's summed load: HIGH iff load >= 0.90,
\* MEDIUM iff 0.50 <= load < 0.90, LOW iff load < 0.50.
C8_RiskClassification ==
  (pc = "executed" /\ IsScenario(plan[1], "risk")) =>
    \A i \in DOMAIN rows :
      LET owners == Holders(graph, rows[i].skill[1])
      IN /\ Cardinality(owners) = 1
         /\ \A owner \in owners :
              LET load == Load(owner.assigned)
              IN /\ rows[i].owner_name = owner.name
                 /\ rows[i].load = Some(load)
                 /\ rows[i].risk_level = Some("HIGH") <=> load >= 90
                 /\ rows[i].risk_level = Some("MEDIUM") <=> (50 <= load /\ load < 90)
                 /\ rows[i].risk_level = Some("LOW") <=> load < 50

C8_Witness_BoundaryAndShared ==
  /\ pc = "executed" /\ IsScenario(plan[1], "risk")
  /\ \E i \in DOMAIN rows : rows[i].load = Some(90) /\ rows[i].risk_level = Some("HIGH")
  /\ \E person \in graph.people : \E sk \in person.skills :
       Cardinality(Holders(graph, LowerStr(Strip(sk)))) = 2

\* C9: in the gap scenario, with R the skills required by pipeline projects and
\* A the skills held by people with load < 1.0, compared in lower case, the
\* missing skills returned are R \ A; an answer without rows reports no missing
\* skill, so R \ A is then empty.
C9_GapIsSetDifference ==
  (pc = "executed" /\ IsScenario(plan[1], "gap")) =>
    LET R == {LowerStr(sk) : sk \in graph.required}
        A == UNION {{LowerStr(sk) : sk \in person.skills} :
                      person \in {q \in graph.people : Load(q.assigned) < 100}}
    IN IF rows = <<>> THEN R \ A = {}
       ELSE rows[1].missing_skills = Some(R \ A)

Team == result[1].natural_answer.lines

TeamIsDiverse ==
  /\ Len(Team) <= 5
  /\ \A i, j \in DOMAIN Team : i # j => Team[i].role # Team[j].role
  /\ \A i, j \in DOMAIN Team : i # j => Team[i].name # Team[j].name

Answered(kind) ==
  /\ pc = "done" /\ IsScenario(plan[1], kind) /\ rows # <<>>
  /\ "success" \in DOMAIN result[1] /\ result[1].success

PairedKinds == {"collab", "collab_success", "uni_pair"}

IsPairedReasoning ==
  /\ plan # None /\ plan[1].query_type = "reasoning"
  /\ plan[1].reasoning.kind # None /\ plan[1].reasoning.kind[1] \in PairedKinds

\* the two people a row of a reasoning result pairs
PairOf(r) ==
  IF "person_a" \in DOMAIN r THEN <<r.person_a, r.person_b>>
  ELSE IF "focus_person" \in DOMAIN r THEN <<r.focus_person, r.collaborator>>
  ELSE <<r.developer_1, r.developer_2>>

NoPairTwice(rs) ==
  /\ \A i \in 1..Len(rs) : PairOf(rs[i])[1] # PairOf(rs[i])[2]
  /\ \A i, j \in 1..Len(rs) :
       ~(PairOf(rs[i])[1] = PairOf(rs[j])[2] /\ PairOf(rs[i])[2] = PairOf(rs[j])[1])

\* C11: the rows returned for a collab, collab_success or uni_pair reasoning
\* query never hold a pair of people in both orders, nor a person paired with
\* themselves
C11_NoPairInBothOrders ==
  (pc = "executed" /\ IsPairedReasoning) => NoPairTwice(rows)

\* rows came back from a graph where two people bear one name and share an
\* employer with each other and with a third
C11_Witness_NamesakesAndPairs ==
  /\ pc = "executed" /\ IsPairedReasoning /\ Len(rows) >= 2
  /\ \E a, b \in graph.people :
       a # b /\ a.name = b.name /\ a.name # None /\ WorkedAt(a) \cap WorkedAt(b) # {}


(***************************************************************************)
(* C12                                                                     *)
(***************************************************************************)
\* both calls have passed the step that leaves them in one of these positions
BothPast(positions) == pc \in positions /\ other.pc \in positions

AfterPlan == {"planned", "compiled", "validated", "executed"}

AfterCompile == {"compiled", "validated", "executed"}

C13_EmptyResultIsSuccess ==
  [][(pc = "executed" /\ rows = <<>>) =>
       /\ pc' = "done"
       /\ result' # None
       /\ "success" \in DOMAIN result'[1]
       /\ result'[1].success
       /\ result'[1].result = <<>>
       /\ result'[1].natural_answer.head # ""]_vars

\* a reasoning question of a kind without a builder of its own was answered
\* from an empty result
C13_Witness_EmptyFallbackAnswered ==
  /\ pc = "done" /\ nqueries = 1 /\ rows = <<>>
  /\ plan[1].query_type = "reasoning" /\ plan[1].reasoning.kind = Some("mentor")
  /\ result # None /\ "success" \in DOMAIN result[1] /\ result[1].success


(***************************************************************************)
(* C14                                                                     *)
(***************************************************************************)
\* C14: a question that a keyword rule of the order counting, aggregation,
\* reasoning, temporal, scenario, filtering decides is given that rule's
\* category, and the plan answer_question builds for it has the same category
C14_PlanHasClassifiedCategory ==
  (category # None /\ plan # None /\ classify_query_rules(question) # None)
    => (category = classify_query_rules(question) /\ plan[1].query_type = category[1])


(***************************************************************************)
(* C15                                                                     *)
(***************************************************************************)
\* C15: a question that no keyword rule decides is not failed on account of
\* the language model: the call does not end with success=false for want of
\* a plan or of a supported category
C15_ModelFailureIsNotFatal ==
  (pc = "done" /\ _heuristic_plan(question) = None)
    => result \notin {Some(Failure("Could not build plan")),
                      Some(Failure("Unsupported query type"))}


(***************************************************************************)
(* C16                                                                     *)
(***************************************************************************)
\* the language model was called and gave content that is not blank
ModelSpoke ==
  /\ summary.outcome # None /\ summary.outcome[1] # None
  /\ Strip(summary.outcome[1][1]) # ""

\* C16: generate_natural_answer returns the fixed no-records message for
\* empty data without calling the language model; when the call raises or
\* gives blank content it returns the fallback summary of the data; and it
\* returns the model's trimmed text when, and only when, the call gave content
\* that is not blank
C16_ModelTextOrFallback ==
  (summary.returned /\ ~summary.raised) =>
    /\ summary.data = <<>> => (summary.answer = Some(NO_RECORDS) /\ summary.llm_calls = 0)
    /\ (summary.data # <<>> /\ ~ModelSpoke)
         => (summary.answer = Some(_fallback_summary(summary.data)) /\ summary.llm_calls = 1)
    /\ (summary.data # <<>> /\ ModelSpoke)
         => (summary.answer = Some(Strip(summary.outcome[1][1])) /\ summary.llm_calls = 1)

\* the model answered with blanks only about two rows, one of them a
\* collaboration
C16_Witness_BlankReplyFallsBack ==
  /\ summary.returned /\ summary.outcome = Some(Some("   ")) /\ Len(summary.data) = 2
  /\ summary.answer = Some("Results:\n- Ann Lee worked with Bob Roy at Acme\n- result: 0")


(***************************************************************************)
(* C17                                                                     *)
(***************************************************************************)
\* C17: a question has at most one query sent to the store, and once that
\* query has raised the call is over with success=false, the exception's
\* message as the error, no second query and no answer made from rows
C17_OneQueryNoRetry ==
  /\ nqueries <= 1
  /\ exc # None =>
       /\ pc = "done" /\ nqueries = 1 /\ rows = <<>>
       /\ result = Some(Failure(exc[1]))

\* the one query of a call raised with a message of its own
C17_Witness_QueryRaised ==
  /\ pc = "done" /\ nqueries = 1 /\ exc = Some("Query timed out")
  /\ result # None /\ ~result[1].success /\ result[1].error = "Query timed out"


(***************************************************************************)
(* C18                                                                     *)
(***************************************************************************)
\* C18: a success=false result returned once a plan exists names the plan's
\* category, and one returned once a query was compiled carries that query
C18_FailuresNameCategoryAndQuery ==
  (pc = "done" /\ result # None /\ "success" \in DOMAIN result[1] /\ ~result[1].success)
    => /\ plan # None =>
            \/ "category" \in DOMAIN result[1]
            \/ "query_type" \in DOMAIN result[1]
            \/ "plan" \in DOMAIN result[1]
       /\ cypher # None => "cypher" \in DOMAIN result[1]


(***************************************************************************)
(* C19                                                                     *)
(***************************************************************************)
\* the locals of the call that is running
Running ==
  [pc |-> pc, question |-> question, plan |-> plan, cypher |-> cypher, params |-> params,
   verdict |-> verdict, rows |-> rows, result |-> result, nqueries |-> nqueries, exc |-> exc]

\* what a call holds is what answer_question produces from the call's own
\* question against the snapshot g on the date td
AsAlone(call, g, td) ==
  /\ call.plan # None =>
       \E lm \in LLMOutcomes : call.plan = plan_question(call.question, lm)
  /\ call.cypher # None =>
       /\ call.cypher = _build_cypher_from_plan(call.plan[1], td).cypher
       /\ call.params = _build_cypher_from_plan(call.plan[1], td).params
  /\ call.rows # <<>> => call.rows \in QueryRows(g, call.cypher[1], call.params)
  /\ (call.result # None /\ "natural_answer" \in DOMAIN call.result[1]
        /\ call.result[1].success) =>
       /\ call.result[1].natural_answer = _format_answer(call.plan[1], call.rows)
       /\ call.result[1].result = call.rows
       /\ call.result[1].cypher = call.cypher[1]
       /\ call.result[1].params = call.params

\* C19: in every interleaving of two calls on one engine the engine's graph
\* handle is left as it was, and the plan, query, parameters and answer of each
\* call are those the call produces alone against the same snapshot
C19_CallsDoNotInterfere ==
  /\ [](AsAlone(Running, graph, today) /\ AsAlone(other, graph, today))
  /\ [][graph' = graph]_vars

\* a call was answered from its rows after the other call, asked something
\* else, had compiled its query and before that one sent it
C19_Witness_Interleaved ==
  /\ pc = "done" /\ result # None /\ "success" \in DOMAIN result[1] /\ result[1].success
  /\ rows # <<>>
  /\ other.pc = "validated" /\ other.question # question
  /\ other.cypher # cypher


(***************************************************************************)
(* C20                                                                     *)
(***************************************************************************)
\* the question holds "how many", one word of the skill vocabulary and
\* "available", and none of the month, quarter and after/ends keywords
AsksHeadCount(qn) ==
  LET q == LowerStr(qn)
  IN /\ Contains(q, "how many") /\ Contains(q, "available")
     /\ Cardinality({i \in DOMAIN known : Contains(q, known[i])}) = 1
     /\ ~AnyIn(q, {"next month", "this month", "q1", "q2", "q3", "q4", "after", "ends"})

\* the question speaks of projects or of certifications
AsksOfProjectsOrCertificates(qn) ==
  AnyIn(LowerStr(qn), {"project", "certification", "certified", "certs", "cert "})

EndsWith(s, k) == Len(s) >= Len(k) /\ SubSeq(s, Len(s) - Len(k) + 1, Len(s)) = k

\* the plan and the query the claim describes, and the count the query gives
HeadCountOfSkill ==
  /\ plan # None
  /\ plan[1].query_type = "counting"
  /\ Len(plan[1].skills) = 1
  /\ \E i \in DOMAIN known : Contains(LowerStr(question), known[i])
                               /\ Contains(LowerStr(question), LowerStr(plan[1].skills[1]))
  /\ plan[1].availability.type = Some("now")
  /\ pc \in AfterCompile \cup {"done"} =>
       /\ Contains(cypher[1], "MATCH (p)-[:HAS_SKILL]->(s:Skill)")
       /\ params = [skills |-> <<LowerStr(plan[1].skills[1])>>]
       /\ Contains(cypher[1], "sum(coalesce(r.allocation_percentage, coalesce(r.allocation,0.0))) as load")
       /\ EndsWith(cypher[1], "WHERE coalesce(load,0) < 1.0\nRETURN count(DISTINCT p) as result")
  /\ (pc = "executed" /\ rows # <<>>) =>
       rows = <<[result |->
                   Some(Cardinality({p \in graph.people :
                          /\ \E sk \in p.skills :
                               Contains(LowerStr(sk), LowerStr(plan[1].skills[1]))
                          /\ Load(p.assigned) < 100}))]>>

C21_CertifiedCountNeedsEarned ==
  (pc = "done" /\ plan # None /\ plan[1].query_type = "counting"
     /\ plan[1].certification_mode
     /\ result # None /\ "natural_answer" \in DOMAIN result[1] /\ rows # <<>>
     /\ EndsWith(result[1].natural_answer.head, " certified people."))
    => /\ Contains(cypher[1], "-[:EARNED]->(c:Certification)")
       /\ rows[1].result[1] <= Cardinality({p \in graph.people : Earned(p) # {}})

(***************************************************************************)
(* The budget ceiling read from the question.                              *)
(***************************************************************************)
\* questions about a team that name amounts of money and other numbers
BudgetQuestions ==
  {"Optimal team within budget $90",
   "Optimal team of 4 people within budget $75",
   "Team of 12 people within budget $90",
   "Optimal team of 3 people within budget 80",
   "Optimal team of 15 engineers for $120",
   "Optimal team within budget $5",
   "Optimal team for 2026 within budget $100",
   "Optimal team at 0.5 allocation within budget $60",
   "Team of 10 developers within budget $95",
   "Optimal team within a budget of $110 per hour",
   "Optimal team of 6 people",
   "Budget team of 20 people"}

InitBudget ==
  /\ pc = "start" /\ question \in BudgetQuestions
  /\ today \in Dates
  /\ graph = [people |-> {}, required |-> {}]
  /\ plan = None /\ cypher = None /\ params = <<>> /\ verdict = None
  /\ rows = <<>> /\ result = None /\ nqueries = 0
  /\ other = Waiting("") /\ category = None /\ summary = Unsummarised(<<>>) /\ exc = None /\ service = Constructed

NextBudget == Plan \/ Compile

SpecBudget == InitBudget /\ [][NextBudget]_vars

\* the number of the first token of the form $<number>, if the question has one
FirstDollarNumber(q) ==
  LET i0 == Leftmost({i \in 1..Len(q) : CharAt(q, i) = "$" /\ IsDigit(CharAt(q, i + 1))})
  IN IF i0 = 0 THEN None ELSE Some(ToInt(Slice(q, i0 + 1, DigitsEnd(q, i0 + 1))))

\* C22: a heuristic plan has budget.max_rate only when the question contains
\* the word "budget", and then it is the number of the first $<number> token;
\* a number not preceded by "$" never becomes max_rate
C22_MaxRateIsFirstDollarNumber ==
  (pc \in {"planned", "compiled"} /\ plan # None /\ plan[1].budget.max_rate # None)
    => /\ Contains(LowerStr(question), "budget")
       /\ plan[1].budget.max_rate = FirstDollarNumber(LowerStr(question))

(***************************************************************************)
(* The temporal queries over the graph snapshots.                          *)
(***************************************************************************)
AvailabilityTypes ==
  {"none", "now", "this_month", "next_month", "quarter", "after_end", "someday"}

TemporalPlans ==
  {[QueryPlan("temporal") EXCEPT !.availability.type = Some(a)] : a \in AvailabilityTypes}

\* a day before, and a day in the month of, the latest end date of the snapshots
TemporalDates == {Date(2025, 12, 15), Date(2026, 3, 20)}

TemporalGraphs == {g \in Graphs : g.required = {}}

InitTemporal ==
  /\ pc = "planned" /\ question = "Who becomes available next month?"
  /\ today \in TemporalDates
  /\ graph \in TemporalGraphs
  /\ plan \in {Some(p) : p \in TemporalPlans}
  /\ cypher = None /\ params = <<>> /\ verdict = None
  /\ rows = <<>> /\ result = None /\ nqueries = 0
  /\ other = Waiting("") /\ category = None /\ summary = Unsummarised(<<>>) /\ exc = None /\ service = Constructed

NextTemporal == Compile \/ Validate \/ Execute \/ Format

SpecTemporal == InitTemporal /\ [][NextTemporal]_vars

\* the rows are in an order that puts no row after one it must precede
InOrder(rs, Before(_, _)) == \A i, j \in DOMAIN rs : i < j => ~Before(rs[j], rs[i])

RowNames(rs) == {rs[i].name : i \in DOMAIN rs}

\* C23: the temporal compiler takes one branch by availability.type.  after_end:
\* one row per assignment with its project and end date, by end date ascending.
\* this_month, next_month, quarter: the people with load < 1.0 or a latest
\* assignment end on or before the window start.  Any other type: the people
\* with load < 1.0.  The last two are ordered by spare capacity descending.
C23_TemporalBranches ==
  (pc \in {"executed", "done"} /\ plan # None /\ plan[1].query_type = "temporal"
     /\ exc = None)
    => LET type == plan[1].availability.type[1]
           c == cypher[1]
           per_assignment == Contains(c, "as current_project")
           windowed == Contains(c, "date(latest_end) <= date($start)")
           spare(p) == Load(p.assigned) < 100
           ended_by_start(p) ==
             /\ LatestEnd(p.assigned) # None
             /\ ~StrLess(params.start, LatestEnd(p.assigned)[1])
       IN IF type = "after_end"
          THEN /\ per_assignment /\ ~windowed
               /\ EndsWith(c, "ORDER BY available_from ASC LIMIT 30")
               /\ {<<rows[i].name, rows[i].current_project, rows[i].available_from>> :
                     i \in DOMAIN rows}
                    = UNION {{<<p.name, p.assigned[i].title, p.assigned[i].end_date>> :
                                i \in {n \in DOMAIN p.assigned : p.assigned[n].end_date # None}} :
                             p \in graph.people}
               /\ InOrder(rows, LAMBDA a, b : StrLess(a.available_from[1], b.available_from[1]))
          ELSE IF type \in {"this_month", "next_month", "quarter"}
          THEN /\ windowed /\ ~per_assignment
               /\ params.start = _window_from_availability(plan[1].availability, today)[1].start
               /\ RowNames(rows) = {p.name : p \in {x \in graph.people : spare(x) \/ ended_by_start(x)}}
               /\ Len(rows) = Cardinality(RowNames(rows))
               /\ InOrder(rows, LAMBDA a, b : a.availability_percent[1] > b.availability_percent[1])
          ELSE /\ ~windowed /\ ~per_assignment
               /\ Contains(c, "WITH p, load, latest_end WHERE coalesce(load,0) < 1.0\n")
               /\ RowNames(rows) = {p.name : p \in {x \in graph.people : spare(x)}}
               /\ Len(rows) = Cardinality(RowNames(rows))
               /\ InOrder(rows, LAMBDA a, b : a.availability_percent[1] > b.availability_percent[1])

\* a fully loaded person listed by the window query because the last assignment
\* ends before the window starts
C23_EndedBeforeWindowListed ==
  /\ pc = "done" /\ exc = None /\ plan # None /\ plan[1].query_type = "temporal"
  /\ plan[1].availability.type = Some("next_month")
  /\ \E p \in graph.people : Load(p.assigned) >= 100 /\ p.name \in RowNames(rows)
  /\ \E p \in graph.people : p.name \notin RowNames(rows)

(***************************************************************************)
(* The generic team query over snapshots of people with rates.             *)
(***************************************************************************)
Paid(person, rate) == person @@ [rate |-> rate]

TeamStaff ==
  {Paid(Person("Ann Lee", "Developer", None, None, {"Python"}, <<>>), Some(80)),
   Paid(Person("Bob Roy", "Architect", None, None, {"python", "AWS"},
               <<Assignment("Borealis", 50, None)>>), Some(95)),
   Paid(Person("Cy Day", "Developer", None, None, {"AWS"}, <<>>), None),
   Paid(Person("Di Fox", "Tester", None, None, {"Python"},
               <<Assignment("Apollo", 30, None)>>), Some(80)),
   Paid(Person("Ed Orr", "Analyst", None, None, {"Security"}, <<>>), Some(120)),
   Paid(Person("Flo Kay", "Developer", None, None, {"Python"},
               <<Assignment("Apollo", 60, None)>>), Some(70))}

TeamGraphs == {[people |-> people, required |-> {}] : people \in SUBSET TeamStaff}

\* team plans with and without a size, an allocation, a budget and skills
TeamOptPlans ==
  {[QueryPlan("scenario") EXCEPT !.scenario.kind = Some("team_opt"), !.team.size = size,
                                 !.team.allocation = allocation, !.budget.max_rate = max_rate,
                                 !.skills = skills] :
     size \in {None, Some(1)}, allocation \in {None, Some(50)},
     max_rate \in {None, Some(100)}, skills \in {<<>>, <<"Python">>}}

InitTeamOpt ==
  /\ pc = "planned" /\ question = "Optimal team of 3 people within budget 80"
  /\ today = Date(2025, 12, 15)
  /\ graph \in TeamGraphs
  /\ plan \in {Some(p) : p \in TeamOptPlans}
  /\ cypher = None /\ params = <<>> /\ verdict = None
  /\ rows = <<>> /\ result = None /\ nqueries = 0
  /\ other = Waiting("") /\ category = None /\ summary = Unsummarised(<<>>) /\ exc = None /\ service = Constructed

NextTeamOpt == Compile \/ Validate \/ Execute \/ Format

SpecTeamOpt == InitTeamOpt /\ [][NextTeamOpt]_vars

\* the person of the snapshot a row is about
PersonOf(row) == CHOOSE p \in graph.people : p.name = row.name

\* C24: every candidate the generic team_opt query returns has load + alloc <= 1.0
\* and rate <= max_rate (alloc 1.0 and max_rate 1000000 when the plan has none);
\* there are at most 3 x team size rows (team size 5 when the plan has none),
\* in ascending rate and, for equal rates, descending availability
C24_TeamCandidatesFit ==
  (pc \in {"executed", "done"} /\ exc = None /\ plan # None
     /\ plan[1].scenario.kind = Some("team_opt") /\ ~TruthyStr(plan[1].rfp_keyword))
    => LET alloc == IF plan[1].team.allocation = None THEN 100 ELSE plan[1].team.allocation[1]
           max_rate == IF plan[1].budget.max_rate = None THEN 1000000
                       ELSE plan[1].budget.max_rate[1]
           size == IF plan[1].team.size = None THEN 5 ELSE plan[1].team.size[1]
       IN /\ \A i \in DOMAIN rows :
               /\ \E p \in graph.people : p.name = rows[i].name
               /\ Load(PersonOf(rows[i]).assigned) + alloc <= 100
               /\ rows[i].rate # None => rows[i].rate[1] <= max_rate
               /\ rows[i].rate = Rate(PersonOf(rows[i]))
          /\ Len(rows) <= 3 * size
          /\ \A i, j \in DOMAIN rows :
               i < j => /\ rows[i].rate = None => rows[j].rate = None
                        /\ (rows[i].rate # None /\ rows[j].rate # None)
                             => rows[i].rate[1] <= rows[j].rate[1]
                        /\ rows[i].rate = rows[j].rate
                             => rows[i].availability_percent[1] >= rows[j].availability_percent[1]

\* three of four fitting candidates returned for a team of one with a budget, a
\* person over the budget and a person without the spare allocation left out
C24_BudgetAndLimitApplied ==
  /\ pc = "done" /\ exc = None /\ plan # None
  /\ plan[1].scenario.kind = Some("team_opt") /\ ~TruthyStr(plan[1].rfp_keyword)
  /\ plan[1].team.size = Some(1) /\ plan[1].budget.max_rate = Some(100)
  /\ Len(rows) = 3
  /\ Cardinality({p \in graph.people : fits(Load(p.assigned), Rate(p), params)}) > 3
  /\ \E p \in graph.people : Rate(p) # None /\ Rate(p)[1] > 100
  /\ \E p \in graph.people : Load(p.assigned) + params.alloc > 100

(***************************************************************************)
(* The greedy team step over lists of candidates.                          *)
(***************************************************************************)
Candidate(name, role, matched, availability_percent, rate) ==
  [rfp_title |-> Some("Fintech Platform"), name |-> Some(name), role |-> Some(role),
   rate |-> Some(rate), availability_percent |-> Some(availability_percent),
   matched |-> Some(SubSeq(<<"python", "aws", "security">>, 1, matched)),
   missing |-> Some(SubSeq(<<"python", "aws", "security">>, matched + 1, 3))]

\* four developers who differ in matched skills, availability and rate, one of
\* them listed twice, and one candidate for each of six other roles
CandidatePool ==
  <<Candidate("Ann Lee", "Developer", 2, 50, 90),
    Candidate("Bob Roy", "Developer", 2, 80, 95),
    Candidate("Cy Day", "Developer", 2, 80, 85),
    Candidate("Di Fox", "Developer", 3, 10, 200),
    Candidate("Ann Lee", "Developer", 3, 50, 90),
    Candidate("Ed Orr", "Analyst", 1, 100, 70),
    Candidate("Flo Kay", "Architect", 0, 100, 110),
    Candidate("Gus Hill", "Designer", 1, 60, 65),
    Candidate("Hal Ives", "Engineer", 3, 40, 120),
    Candidate("Ida Jay", "Manager", 0, 90, 150),
    Candidate("Jo King", "Tester", 2, 70, 60)>>

RECURSIVE Pick(_, _)
Pick(xs, keep) ==
  IF xs = <<>> THEN <<>>
  ELSE (IF Len(xs) \in keep THEN Pick(SubSeq(xs, 1, Len(xs) - 1), keep) \o <<xs[Len(xs)]>>
        ELSE Pick(SubSeq(xs, 1, Len(xs) - 1), keep))

Reversed(xs) == [i \in DOMAIN xs |-> xs[Len(xs) + 1 - i]]

\* every selection of the pool, as listed and in the opposite order
CandidateLists ==
  UNION {{Pick(CandidatePool, keep), Reversed(Pick(CandidatePool, keep))} :
           keep \in SUBSET DOMAIN CandidatePool}

InitGreedy ==
  /\ pc = "executed" /\ question = "Build an optimal team for the fintech RFP"
  /\ today = Date(2025, 12, 15)
  /\ graph = [people |-> {}, required |-> {}]
  /\ plan = Some(TeamPlan("rfp"))
  /\ cypher = _build_cypher_from_plan(TeamPlan("rfp"), today).cypher
  /\ params = _build_cypher_from_plan(TeamPlan("rfp"), today).params
  /\ rows \in CandidateLists \ {<<>>}
  /\ verdict = Some(TRUE)
  /\ result = None /\ nqueries = 1
  /\ other = Waiting("") /\ category = None /\ summary = Unsummarised(<<>>) /\ exc = None /\ service = Constructed

NextGreedy == Format

SpecGreedy == InitGreedy /\ [][NextGreedy]_vars

\* the first row of each name
FirstByName(rs) ==
  {rs[i] : i \in {n \in DOMAIN rs : \A m \in 1..(n - 1) : rs[m].name # rs[n].name}}

\* r is no better a candidate than m: fewer matched skills, or as many and less
\* available, or as many, as available and no cheaper
NoBetter(r, m) ==
  \/ Len(r.matched[1]) < Len(m.matched[1])
  \/ /\ Len(r.matched[1]) = Len(m.matched[1])
     /\ r.availability_percent[1] < m.availability_percent[1]
  \/ /\ Len(r.matched[1]) = Len(m.matched[1])
     /\ r.availability_percent[1] = m.availability_percent[1]
     /\ r.rate[1] >= m.rate[1]

RECURSIVE SumRates(_)
SumRates(team) == IF team = <<>> THEN 0 ELSE team[1].rate[1] + SumRates(Tail(team))

\* C25: in the greedy team step each selected candidate has the most matched
\* skills among the de-duplicated candidates of its role, ties broken by higher
\* availability and then lower rate; the roles filled are the first five in
\* ascending role name, one candidate each; the total hourly cost is the sum of
\* the rates of the selected
C25_GreedyTeam ==
  (pc = "done" /\ result # None /\ "natural_answer" \in DOMAIN result[1]
     /\ result[1].natural_answer.head = "Proposed Optimal Team Composition:")
    => LET team == result[1].natural_answer.lines
           unique == FirstByName(rows)
           roles == {r.role[1] : r \in unique}
           filled == {team[i].role[1] : i \in DOMAIN team}
       IN /\ \A i \in DOMAIN team :
               /\ team[i] \in unique
               /\ \A r \in unique : r.role = team[i].role => NoBetter(r, team[i])
          /\ \A i, j \in DOMAIN team : i < j => StrLess(team[i].role[1], team[j].role[1])
          /\ Len(team) = (IF Cardinality(roles) < 5 THEN Cardinality(roles) ELSE 5)
          /\ \A a \in filled : \A b \in roles \ filled : StrLess(a, b)
          /\ result[1].natural_answer.total_rate = SumRates(team)
          /\ result[1].natural_answer.candidates = Cardinality(unique)

\* five of seven roles filled, the developer chosen on matched skills over a
\* cheaper and more available one listed before
C25_FiveOfSevenRoles ==
  /\ pc = "done" /\ result # None /\ "natural_answer" \in DOMAIN result[1]
  /\ result[1].natural_answer.head = "Proposed Optimal Team Composition:"
  /\ Cardinality({rows[i].role : i \in DOMAIN rows}) = 7
  /\ Len(result[1].natural_answer.lines) = 5
  /\ rows[1].name = Some("Ann Lee")
  /\ \E i \in DOMAIN result[1].natural_answer.lines :
       result[1].natural_answer.lines[i].name = Some("Di Fox")

(***************************************************************************)
(* Two plans compiled side by side.                                        *)
(***************************************************************************)
\* plans of every category that differ in the values of the fields taken from
\* the question, and in whether the fields are set
ValuePlans ==
  {[QueryPlan("counting") EXCEPT !.skills = s, !.certification_mode = cm,
                                 !.availability.type = Some(a)] :
     s \in {<<>>, <<"Rust">>, <<"Kotlin", "Rust">>}, cm \in BOOLEAN, a \in {"none", "now"}}
  \cup
  {[QueryPlan("filtering") EXCEPT !.skills = s, !.seniority = sen, !.timezone = tz] :
     s \in {<<>>, <<"Rust">>, <<"Kotlin", "Rust">>},
     sen \in {None, Some(""), Some("Principal"), Some("Junior")},
     tz \in {None, Some("CET"), Some("GMT")}}
  \cup
  {[QueryPlan("aggregation") EXCEPT !.aggregation_kind = Some("avg_rate"), !.skills = s] :
     s \in {<<>>, <<"Rust">>, <<"Kotlin", "Rust">>}}
  \cup
  {[QueryPlan("reasoning") EXCEPT !.reasoning.focus_person = fp] :
     fp \in {None, Some("Jacob Young"), Some("Ann Lee")}}
  \cup
  {[QueryPlan("temporal") EXCEPT !.availability.type = Some("next_month"), !.skills = s] :
     s \in {<<>>, <<"Rust">>, <<"Kotlin", "Rust">>}}
  \cup
  {[QueryPlan("scenario") EXCEPT !.scenario.kind = Some("team_opt"), !.rfp_keyword = r,
                                 !.skills = s, !.budget.max_rate = b, !.team.allocation = al] :
     r \in {None, Some("fintech"), Some("audit")}, s \in {<<>>, <<"Rust">>},
     b \in {None, Some(80), Some(120)}, al \in {None, Some(50), Some(30)}}

InitValues ==
  /\ pc = "planned" /\ question = "Who knows Rust?"
  /\ today = Date(2025, 12, 15)
  /\ graph = [people |-> {}, required |-> {}]
  /\ plan \in {Some(p) : p \in ValuePlans}
  /\ cypher = None /\ params = <<>> /\ verdict = None
  /\ rows = <<>> /\ result = None /\ nqueries = 0
  /\ \E p2 \in ValuePlans :
       /\ p2.query_type = plan[1].query_type
       /\ other = [Waiting("Who knows Rust?") EXCEPT !.pc = "planned", !.plan = Some(p2)]
  /\ category = None /\ summary = Unsummarised(<<>>) /\ exc = None /\ service = Constructed

NextValues == Compile \/ Switch

SpecValues == InitValues /\ [][NextValues]_vars

\* a plan with the values of its user-derived fields put aside: what is left is
\* the category, the sub-kinds, the flags and which of the fields are set
Shape(p) ==
  [p EXCEPT !.skills = IF p.skills = <<>> THEN <<>> ELSE <<"*">>,
            !.seniority = IF TruthyStr(p.seniority) THEN Some("*") ELSE None,
            !.timezone = IF TruthyStr(p.timezone) THEN Some("*") ELSE None,
            !.reasoning.focus_person = IF TruthyStr(p.reasoning.focus_person) THEN Some("*") ELSE None,
            !.rfp_keyword = IF TruthyStr(p.rfp_keyword) THEN Some("*") ELSE None,
            !.budget.max_rate = None,
            !.team.allocation = None]

\* the values of the user-derived fields of a plan, as they would be written
ValuesOf(p) ==
  {p.skills[i] : i \in DOMAIN p.skills} \cup {LowerStr(p.skills[i]) : i \in DOMAIN p.skills}
    \cup {o[1] : o \in {f \in {p.seniority, p.timezone, p.reasoning.focus_person, p.rfp_keyword} :
                          TruthyStr(f)}}
    \cup {IntToStr(o[1]) : o \in {f \in {p.budget.max_rate} : f # None}}

\* C26: two plans that differ only in the values of skills, seniority, timezone,
\* focus_person, rfp_keyword, budget and allocation compile to the same query
\* string, and no such value is part of the string
C26_QueryTextIgnoresValues ==
  (pc = "compiled" /\ other.pc = "compiled")
    => /\ Shape(plan[1]) = Shape(other.plan[1]) => cypher = other.cypher
       /\ \A v \in ValuesOf(plan[1]) : ~Contains(cypher[1], v) /\ ~Contains(cypher[1], LowerStr(v))

\* two filtering plans naming different skills, seniorities and timezones, with
\* one query text and different parameters
C26_SameTextOtherParameters ==
  /\ pc = "compiled" /\ other.pc = "compiled"
  /\ plan[1].query_type = "filtering"
  /\ plan[1].skills = <<"Rust">> /\ other.plan[1].skills = <<"Kotlin", "Rust">>
  /\ plan[1].seniority = Some("Principal") /\ other.plan[1].seniority = Some("Junior")
  /\ plan[1].timezone = Some("CET") /\ other.plan[1].timezone = Some("GMT")
  /\ cypher = other.cypher
  /\ params.skills # other.params.skills /\ params.sen # other.params.sen
  /\ params.tz # other.params.tz

\* the skills held, in lower case, by the people of g with load < 1.0
SpareSkills(g) ==
  UNION {{LowerStr(sk) : sk \in person.skills} :
           person \in {q \in g.people : Load(q.assigned) < 100}}

\* C27: for the gap scenario the answer "no missing skills detected for pipeline
\* projects" is given only when every skill the pipeline projects require is
\* held by a person with load < 1.0; when skills are required and nobody has
\* spare capacity the answer reports the required skills as missing
C27_NoMissingSkillsOnlyWhenCovered ==
  (pc = "done" /\ plan # None /\ IsScenario(plan[1], "gap")
     /\ result # None /\ "success" \in DOMAIN result[1] /\ result[1].success)
    => LET R == {LowerStr(sk) : sk \in graph.required}
           answer == result[1].natural_answer
           nobody_spare == \A q \in graph.people : Load(q.assigned) >= 100
       IN /\ answer.head = "Based on graph results: no missing skills detected for pipeline projects."
               => R \subseteq SpareSkills(graph)
          /\ (R # {} /\ nobody_spare)
               => /\ answer.head = "Based on graph results: missing skills"
                  /\ answer.lines = <<Some(R)>>

(***************************************************************************)
(* The what-if simulation over snapshots of people with several skills.    *)
(***************************************************************************)
SimulationStaff ==
  {Paid(Person("Ann Lee", "Developer", None, Some("PT"), {"Java", "JavaScript"},
               <<Assignment("Apollo", 50, None)>>), Some(80)),
   Paid(Person("Bob Roy", "Developer", None, Some("PT"), {"Java"},
               <<Assignment("Apollo", 50, None)>>), Some(95)),
   Paid(Person("Cy Day", "Architect", None, Some("ET"), {"Python", "Java", "Java EE"},
               <<Assignment("Apollo", 20, None), Assignment("Borealis", 10, None)>>), None),
   Paid(Person("Di Fox", "Tester", None, None, {"Python", "JavaScript"}, <<>>), Some(85))}

SimulationGraphs == {[people |-> people, required |-> {}] : people \in SUBSET SimulationStaff}

InitSimulation ==
  /\ pc = "idle" /\ question = ""
  /\ today = Date(2025, 12, 15)
  /\ graph \in SimulationGraphs
  /\ plan = None /\ cypher = None /\ params = <<>> /\ verdict = None
  /\ rows = <<>> /\ result = None /\ nqueries = 0
  /\ other = Waiting("") /\ category = None /\ summary = Unsummarised(<<>>) /\ exc = None /\ service = Constructed

NextSimulation == Simulate

SpecSimulation == InitSimulation /\ [][NextSimulation]_vars

\* C28: in the what-if simulation the current_load of a candidate is the sum of
\* the person's allocations, each assignment counted once, however many of the
\* person's skills contain the keyword; a person with such a skill who passes
\* the budget and timezone filters is returned iff 1.0 minus that sum is at
\* least the required allocation; one query is issued
C28_SimulationLoadCountsOnce ==
  (pc = "done" /\ result # None /\ "simulation_mode" \in DOMAIN result[1])
    => LET found == result[1].matching_candidates
           skilled(p) == \E sk \in p.skills : Contains(LowerStr(sk), LowerStr(params.skill))
           allowed(p) ==
             /\ "max_budget" \in DOMAIN params => (Rate(p) # None /\ Rate(p)[1] <= params.max_budget)
             /\ "timezone" \in DOMAIN params => p.timezone = Some(params.timezone)
       IN /\ \A i \in DOMAIN found :
               found[i].current_load = Some(Load(PersonOf(found[i]).assigned))
          /\ {found[i].name : i \in DOMAIN found}
               = {p.name : p \in {q \in graph.people :
                                    skilled(q) /\ allowed(q)
                                      /\ 100 - Load(q.assigned) >= params.needed}}
          /\ nqueries = 1

(***************************************************************************)
(* Rows with attributes that are null or absent, put to the formatter.     *)
(***************************************************************************)
Without(r, k) == [f \in DOMAIN r \ {k} |-> r[f]]

\* a candidate row as returned, with one attribute null, or with one absent
Nullable(r) ==
  {r} \cup {[r EXCEPT ![k] = None] : k \in {"role", "rate", "availability_percent", "matched"}}
      \cup {Without(r, k) : k \in {"role", "rate", "availability_percent", "matched"}}

RiskRow(load) ==
  [skill |-> Some("rust"), owner_name |-> Some("Ann Lee"), load |-> load,
   availability_percent |-> Some(5), risk_level |-> Some("HIGH"),
   projects |-> Some(<<Assignment("Apollo", 95, None)>>)]

\* a plan of a category or scenario sub-kind with rows of its shape
NullableCases ==
  {[plan |-> pl, rows |-> rs] :
     pl \in {TeamPlan("rfp"), TeamPlan("generic"), QueryPlan("filtering"),
             [QueryPlan("temporal") EXCEPT !.availability.type = Some("next_month")]},
     rs \in {<<a>> : a \in Nullable(CandidatePool[1])}
              \cup {<<a, b>> : a \in Nullable(CandidatePool[1]), b \in Nullable(CandidatePool[6])}}
  \cup
  {[plan |-> [QueryPlan("scenario") EXCEPT !.scenario.kind = Some("risk")], rows |-> rs] :
     rs \in {<<RiskRow(Some(95))>>, <<RiskRow(None)>>, <<Without(RiskRow(None), "load")>>}}

InitNullable ==
  /\ pc = "executed" /\ question = "Build an optimal team for the fintech RFP"
  /\ today = Date(2025, 12, 15)
  /\ graph = [people |-> {}, required |-> {}]
  /\ \E case \in NullableCases :
       /\ plan = Some(case.plan)
       /\ cypher = _build_cypher_from_plan(case.plan, today).cypher
       /\ params = _build_cypher_from_plan(case.plan, today).params
       /\ rows = case.rows
  /\ verdict = Some(TRUE)
  /\ result = None /\ nqueries = 1
  /\ other = Waiting("") /\ category = None /\ summary = Unsummarised(<<>>) /\ exc = None /\ service = Constructed

NextNullable == Format

SpecNullable == InitNullable /\ [][NextNullable]_vars

\* C29: once the store has returned rows, answer_question returns success = true
\* with an answer and does not raise, whichever of role, rate,
\* availability_percent, matched and load are null or absent in the rows
C29_ReturnedRowsAlwaysAnswered ==
  (pc = "done" /\ nqueries = 1 /\ exc = None /\ rows # <<>>)
    => /\ result # None
       /\ "success" \in DOMAIN result[1] /\ result[1].success
       /\ "natural_answer" \in DOMAIN result[1]

(***************************************************************************)
(* The REST service (api.py).  service.engine is whether the global engine *)
(* is set; service.pending names the endpoint whose handler is running;    *)
(* service.response is the last response: its endpoint, status and, for    *)
(* /api/v1/cypher, the query of the request.                               *)
(***************************************************************************)
forbidden_keywords ==
  <<"create", "merge", "delete", "detach", "set", "drop", "remove", "call", "load csv",
    "apoc", "gds", "periodic", "foreach", "dbms", "admin", "schema">>

\* queries posted to /api/v1/cypher: a lead, a first clause, a rest
CypherRequests ==
  {lead \o first \o rest :
     lead \in {"", " \n\t"},
     first \in {"MATCH (n) ", "With 1 AS n ", "RETURN 1 AS m, ", "Optional Match (n) ",
                "UNWIND [1] AS n ", ""},
     rest \in {"RETURN n", "SET n.x = 1 RETURN n", "RETURN n.offset", "Call n RETURN n",
               "RETURN n.schema"}}

Response(endpoint, status, query) ==
  Some([endpoint |-> endpoint, status |-> status, query |-> query])

\* startup_init: the engine is constructed, or its construction raises and the
\* global stays None
startup_init ==
  /\ pc = "boot"
  /\ \E constructed \in BOOLEAN : service' = [service EXCEPT !.engine = constructed]
  /\ pc' = "idle"
  /\ UNCHANGED <<question, today, plan, cypher, params, verdict, graph, rows, result,
                 nqueries, other, category, summary, exc>>

\* POST /api/v1/query up to the call of engine.answer_question
query_knowledge_graph ==
  /\ pc \in {"idle", "done"} /\ service.pending = ""
  /\ \E qn \in {"Who knows Rust?", "How many projects are active?",
                "Identify single points of failure"} :
       /\ question' = qn
       /\ IF ~service.engine
          THEN /\ service' = [service EXCEPT !.response = Response("query", 503, "")]
               /\ pc' = "done"
          ELSE /\ service' = [service EXCEPT !.pending = "query", !.response = None]
               /\ pc' = "start"
  /\ plan' = None /\ cypher' = None /\ params' = <<>> /\ verdict' = None
  /\ rows' = <<>> /\ result' = None /\ nqueries' = 0
  /\ category' = None /\ exc' = None
  /\ UNCHANGED <<today, graph, other, summary>>

\* POST /api/v1/query once answer_question has returned or raised
query_knowledge_graph_respond ==
  /\ pc = "done" /\ service.pending = "query"
  /\ service' = [service EXCEPT
                   !.pending = "",
                   !.response = Response("query",
                                         IF "raised" \in DOMAIN result[1] THEN 500 ELSE 200, "")]
  /\ UNCHANGED <<pc, question, today, plan, cypher, params, verdict, graph, rows, result,
                 nqueries, other, category, summary, exc>>

\* a handler of /api/v1/cypher that looks at the start of the query first
execute_cypher_start_first ==
  /\ pc \in {"idle", "done"} /\ service.pending = ""
  /\ \E text \in CypherRequests :
       LET query == Strip(text)
           query_lower == LowerStr(query)
           answer(status) == service' = [service EXCEPT !.response = Response("cypher", status, text)]
       IN /\ cypher' = Some(query)
          /\ IF ~service.engine
             THEN answer(503) /\ nqueries' = 0 /\ rows' = <<>> /\ exc' = None
             ELSE IF ~\E first \in {"match", "with", "return"} : StartsWith(query_lower, first)
             THEN answer(400) /\ nqueries' = 0 /\ rows' = <<>> /\ exc' = None
             ELSE IF \E i \in DOMAIN forbidden_keywords : Contains(query_lower, forbidden_keywords[i])
             THEN answer(403) /\ nqueries' = 0 /\ rows' = <<>> /\ exc' = None
             ELSE /\ nqueries' = 1
                  /\ \/ /\ \E res \in QueryRows(graph, query, <<>>) : rows' = res
                        /\ exc' = None /\ answer(200)
                     \/ /\ \E e \in StoreErrors : exc' = Some(e)
                        /\ rows' = <<>> /\ answer(500)
  /\ pc' = "done" /\ question' = ""
  /\ plan' = None /\ params' = <<>> /\ verdict' = None /\ result' = None /\ category' = None
  /\ UNCHANGED <<today, graph, other, summary>>

\* POST /api/v1/cypher
execute_cypher ==
  /\ pc \in {"idle", "done"} /\ service.pending = ""
  /\ \E text \in CypherRequests :
       LET query == Strip(text)
           query_lower == LowerStr(query)
           answer(status) == service' = [service EXCEPT !.response = Response("cypher", status, text)]
       IN /\ cypher' = Some(query)
          /\ IF ~service.engine
             THEN answer(503) /\ nqueries' = 0 /\ rows' = <<>> /\ exc' = None
             ELSE IF \E i \in DOMAIN forbidden_keywords : Contains(query_lower, forbidden_keywords[i])
             THEN answer(403) /\ nqueries' = 0 /\ rows' = <<>> /\ exc' = None
             ELSE IF ~\E first \in {"match", "with", "return"} : StartsWith(query_lower, first)
             THEN answer(400) /\ nqueries' = 0 /\ rows' = <<>> /\ exc' = None
             ELSE /\ nqueries' = 1
                  /\ \/ /\ \E res \in QueryRows(graph, query, <<>>) : rows' = res
                        /\ exc' = None /\ answer(200)
                     \/ /\ \E e \in StoreErrors : exc' = Some(e)
                        /\ rows' = <<>> /\ answer(500)
  /\ pc' = "done" /\ question' = ""
  /\ plan' = None /\ params' = <<>> /\ verdict' = None /\ result' = None /\ category' = None
  /\ UNCHANGED <<today, graph, other, summary>>

InitService ==
  /\ pc = "boot" /\ question = ""
  /\ today = Date(2025, 12, 15)
  /\ graph \in {g \in SampleGraphs : g.people # {}}
  /\ plan = None /\ cypher = None /\ params = <<>> /\ verdict = None
  /\ rows = <<>> /\ result = None /\ nqueries = 0
  /\ other = Waiting("") /\ category = None /\ summary = Unsummarised(<<>>) /\ exc = None
  /\ service = [engine |-> FALSE, pending |-> "", response |-> None]

NextService ==
  \/ startup_init \/ query_knowledge_graph \/ query_knowledge_graph_respond \/ execute_cypher
  \/ Plan \/ Compile \/ Validate \/ Execute \/ Format

SpecService == InitService /\ [][NextService]_vars

\* C30: while the engine failed to initialise, every /api/v1/query and
\* /api/v1/cypher request is answered 503 and no graph query is issued; with an
\* engine, /api/v1/cypher answers 403 without a query when the query contains a
\* forbidden keyword, else 400 without a query when it does not start with
\* match, with or return, and issues one graph query only in the remaining case
C30_ServiceGuards ==
  LET r == service.response
  IN /\ (pc # "boot" /\ ~service.engine)
          => /\ nqueries = 0 /\ pc \in {"idle", "done"}
             /\ r # None => r[1].status = 503
     /\ (service.engine /\ r # None /\ r[1].endpoint = "cypher")
          => LET q == LowerStr(Strip(r[1].query))
                 blocked == \E i \in DOMAIN forbidden_keywords : Contains(q, forbidden_keywords[i])
                 starts == \E first \in {"match", "with", "return"} : StartsWith(q, first)
             IN IF blocked THEN r[1].status = 403 /\ nqueries = 0
                ELSE IF ~starts THEN r[1].status = 400 /\ nqueries = 0
                ELSE r[1].status \in {200, 500} /\ nqueries = 1 /\ cypher = Some(Strip(r[1].query))

\* with an engine, a query that holds a forbidden keyword and does not start
\* with match, with or return is answered 403
C30_KeywordCheckedBeforeStart ==
  /\ service.engine /\ service.response # None
  /\ service.response[1].endpoint = "cypher" /\ service.response[1].status = 403
  /\ nqueries = 0
  /\ ~\E first \in {"match", "with", "return"} :
        StartsWith(LowerStr(Strip(service.response[1].query)), first)

====
